---- MODULE Spec2Model ----
(***************************************************************************)
(* Path Integral Sampler of lc0: the performance monitor, the debug        *)
(* logger's session state, the sampling controller, the engine adapter's   *)
(* Go handler and the sampling verifier.                                   *)
(*                                                                         *)
(* Floats are fixed point: scores and lambda in units of 1/1000,           *)
(* probabilities in units of 1/Scale.  A move is a positive integer,       *)
(* NullMove the default-constructed Move().  A position is the list of its *)
(* legal moves.  The clock ticks once per move evaluation.                 *)
(***************************************************************************)
EXTENDS Integers, Sequences, FiniteSets, TLC

VARIABLES
  mon,        \* PathIntegralPerformanceMonitor: enabled_, sampling_active_, current_metrics_
  config,     \* SimplePathIntegralController::config_
  backend,    \* the backend_ pointer ("none" is the null pointer)
  logger,     \* PathIntegralDebugLogger::Instance(): enabled_, session_active_
  call        \* what the caller holds of its last call, until it goes on

vars == <<mon, config, backend, logger, call>>

-----------------------------------------------------------------------------
(* Bounds *)
MaxSamples == 2      \* largest config.samples explored
MaxLegal   == 2      \* longest legal-move list explored
MaxDraws   == 4      \* most draws (samples times legal moves) in one explored run
MaxCount   == 3      \* cap on the monitor counters in the stand-alone monitor runs
MaxEvents  == 3      \* most entries in the debug logger's history
MaxMessages == 1     \* most of them that are not session_start or session_end
MaxThreads == 2      \* threads that log at the same time
MaxScenarios == 2    \* scenarios in one suite
MaxScores  == 3      \* longest score list handed to the softmax, the over-long one aside

NullMove == 0
Moves    == 1..MaxLegal

-----------------------------------------------------------------------------
(* Small helpers *)
Max2(a, b) == IF a >= b THEN a ELSE b
Min2(a, b) == IF a <= b THEN a ELSE b
Abs(a)     == IF a >= 0 THEN a ELSE 0 - a
SeqToSet(s) == { s[i] : i \in 1..Len(s) }

RECURSIVE SumSeq(_)
SumSeq(s) == IF Len(s) = 0 THEN 0 ELSE s[1] + SumSeq(Tail(s))

-----------------------------------------------------------------------------
(* PathIntegralPerformanceMonitor *)

\* SamplingMetrics::Reset
MetricsReset ==
  [ requested_samples      |-> 0,
    actual_samples         |-> 0,
    neural_net_evaluations |-> 0,
    cached_evaluations     |-> 0,
    heuristic_evaluations  |-> 0,
    total_time_ms          |-> 0,
    neural_net_time_ms     |-> 0 ]

\* constructor: enabled_{true}, sampling_active_{false}, metrics reset
MonitorNew == [ enabled |-> TRUE, active |-> FALSE, m |-> MetricsReset ]

\* a StartSampling that keeps the counters of a session that is still active
StartSamplingKeepsCounters(mo, n) ==
  IF ~mo.enabled THEN mo
  ELSE IF mo.active THEN [ mo EXCEPT !.m.requested_samples = n ]
  ELSE [ mo EXCEPT !.m = [ MetricsReset EXCEPT !.requested_samples = n ],
                   !.active = TRUE ]

\* StartSampling(requested_samples)
StartSampling(mo, n) ==
  IF ~mo.enabled THEN mo
  ELSE [ mo EXCEPT !.m = [ MetricsReset EXCEPT !.requested_samples = n ],
                   !.active = TRUE ]

EvalMethods ==
  { "neural_network", "neural_net", "cached", "cache", "heuristic",
    "unknown_method", "neural_network_attempted", "heuristic_backend_unavailable" }

\* the bucket RecordSample files a method tag under
MethodBucket(eval_method) ==
  IF eval_method \in {"neural_network", "neural_net"} THEN "nn"
  ELSE IF eval_method \in {"cached", "cache"} THEN "cached"
  ELSE IF eval_method = "heuristic" THEN "heuristic"
  ELSE "nn"

\* a RecordSample that does not look at sampling_active_
RecordSampleWhileIdle(mo, eval_method, time_ms) ==
  IF ~mo.enabled THEN mo
  ELSE [ mo EXCEPT !.m.actual_samples = @ + 1 ]

\* RecordSample(eval_method, time_ms)
RecordSample(mo, eval_method, time_ms) ==
  IF ~mo.enabled \/ ~mo.active THEN mo
  ELSE LET b  == MethodBucket(eval_method)
           m1 == [ mo.m EXCEPT !.actual_samples = @ + 1 ]
           m2 == CASE b = "nn" ->
                        [ m1 EXCEPT !.neural_net_evaluations = @ + 1,
                                    !.neural_net_time_ms = @ + time_ms ]
                   [] b = "cached" ->
                        [ m1 EXCEPT !.cached_evaluations = @ + 1 ]
                   [] b = "heuristic" ->
                        [ m1 EXCEPT !.heuristic_evaluations = @ + 1 ]
       IN [ mo EXCEPT !.m = m2 ]

\* RecordNeuralNetEvaluation(time_ms)
RecordNeuralNetEvaluation(mo, time_ms) ==
  IF ~mo.enabled \/ ~mo.active THEN mo
  ELSE [ mo EXCEPT !.m.neural_net_evaluations = @ + 1,
                   !.m.neural_net_time_ms = @ + time_ms ]

\* RecordCachedEvaluation()
RecordCachedEvaluation(mo) ==
  IF ~mo.enabled \/ ~mo.active THEN mo
  ELSE [ mo EXCEPT !.m.cached_evaluations = @ + 1 ]

\* RecordHeuristicEvaluation()
RecordHeuristicEvaluation(mo) ==
  IF ~mo.enabled \/ ~mo.active THEN mo
  ELSE [ mo EXCEPT !.m.heuristic_evaluations = @ + 1 ]

\* EndSampling(): UpdateTotalTime with `elapsed` ms on the clock since start
EndSampling(mo, elapsed) ==
  IF ~mo.enabled \/ ~mo.active THEN mo
  ELSE [ mo EXCEPT !.m.total_time_ms = elapsed, !.active = FALSE ]

\* GetMetrics(): a copy; live total time while a session is active
GetMetrics(mo, elapsed) ==
  IF ~mo.enabled THEN MetricsReset
  ELSE IF mo.active THEN [ mo.m EXCEPT !.total_time_ms = elapsed ]
  ELSE mo.m

\* SamplingMetrics::CalculateDerivedMetrics, avg_time_per_sample_ms in 1/1000 ms
AvgTimePerSampleMicro(m) ==
  IF m.actual_samples > 0 THEN (m.total_time_ms * 1000) \div m.actual_samples ELSE 0

\* SamplingMetrics::CalculateDerivedMetrics, samples_per_second
SamplesPerSecond(m) ==
  IF m.total_time_ms > 0 THEN (m.actual_samples * 1000) \div m.total_time_ms ELSE 0

-----------------------------------------------------------------------------
(* PathIntegralConfig *)

SamplingModes == {"competitive", "quantum_limit"}
RewardModes   == {"policy", "cp_score", "hybrid"}

\* PathIntegralConfig default member initialisers / SetDefaults
ConfigDefaults ==
  [ lambda        |-> 100,
    samples       |-> 50,
    reward_mode   |-> "hybrid",
    sampling_mode |-> "competitive",
    enabled       |-> FALSE,
    debug_logging |-> FALSE ]

-----------------------------------------------------------------------------
(* PathIntegralDebugLogger: the part of its state the controller drives *)

\* private members: enabled_ = false, session_active_ = false
LoggerNew == [ enabled |-> FALSE, session_active |-> FALSE ]

\* SetEnabled(enabled)
LoggerSetEnabled(lg, b) == [ lg EXCEPT !.enabled = b ]

\* EndSession()
LoggerEndSession(lg) ==
  IF ~lg.enabled \/ ~lg.session_active THEN lg
  ELSE [ lg EXCEPT !.session_active = FALSE ]

\* StartSession(position_fen): ends an active session, then opens a new one
LoggerStartSession(lg) ==
  IF ~lg.enabled THEN lg
  ELSE [ LoggerEndSession(lg) EXCEPT !.session_active = TRUE ]

\* 1 when StartSession opens a session, 0 when the logger is disabled
SessionsOpened(lg) == IF lg.enabled THEN 1 ELSE 0

-----------------------------------------------------------------------------
(* SoftmaxCalculator, fixed point *)

Scale      == 10000      \* one unit of probability
kMinLambda == 1          \* 0.001
kMaxLambda == 10000      \* 10.0
kMinExpArg == 0 - 700000 \* -700.0
kMaxExpArg == 700000     \* +700.0
kMaxScoreArraySize == 1000000

\* a non-finite float (NaN or an infinity), outside the range of every finite value
NaN == 1000000000
\* std::isfinite
IsFinite(x) == x # NaN

\* Scale * e^(-a), a a whole number
ExpWhole(a) ==
  IF a >= 10 THEN 0
  ELSE <<10000, 3679, 1353, 498, 183, 67, 25, 9, 3, 1>>[a + 1]

\* Scale * e^(-h/10), h in 0..9
ExpTenth(h) == <<10000, 9048, 8187, 7408, 6703, 6065, 5488, 4966, 4493, 4066>>[h + 1]

\* Scale * e^(-r/1000), r in 0..99, by the series 1 - x + x^2/2
ExpMilli(r) == 10000 - 10 * r + (r * r) \div 200

\* std::exp of a non-positive argument x/1000, in units of 1/Scale
ExpFP(x) ==
  LET n == 0 - x
      a == n \div 1000
      h == (n % 1000) \div 100
      r == n % 100
  IN (((ExpWhole(a) * ExpTenth(h)) \div Scale) * ExpMilli(r)) \div Scale

\* UniformProbabilities(count)
UniformProbabilities(count) ==
  IF count = 0 THEN <<>> ELSE [ i \in 1..count |-> Scale \div count ]

\* IsValidInput(scores)
IsValidInput(scores) ==
  /\ Len(scores) > 0
  /\ Len(scores) <= kMaxScoreArraySize
  /\ \A i \in 1..Len(scores) : IsFinite(scores[i])

RECURSIVE MaxElement(_)
\* *std::max_element(scores.begin(), scores.end()) of a non-empty list
MaxElement(s) ==
  IF Len(s) = 1 THEN s[1] ELSE Max2(s[1], MaxElement(Tail(s)))

\* step 3: (score - max_score) * lambda, clamped to [kMinExpArg, kMaxExpArg]
ScaleScores(scores, max_score, lambda) ==
  [ i \in 1..Len(scores) |->
      Max2(kMinExpArg, Min2(kMaxExpArg, ((scores[i] - max_score) * lambda) \div 1000)) ]

\* the sum of exponentials CalculateLogSumExp takes the logarithm of
SumExp(scaled) == SumSeq([ i \in 1..Len(scaled) |-> ExpFP(scaled[i]) ])

\* step 5: exp(scaled - log_sum_exp), evaluated as exp(scaled) / sum_exp;
\* CalculateLogSumExp returns 0 for a sum that is not positive
ComputeProbabilities(scaled) ==
  LET s == SumExp(scaled)
  IN [ i \in 1..Len(scaled) |->
         IF s <= 0 THEN ExpFP(scaled[i]) ELSE (ExpFP(scaled[i]) * Scale) \div s ]

\* CalculateSoftmax that does not look at lambda
CalculateSoftmaxAnyLambda(scores, lambda) ==
  IF ~IsValidInput(scores)
    THEN UniformProbabilities(Len(scores))
    ELSE ComputeProbabilities(ScaleScores(scores, MaxElement(scores), lambda))

\* CalculateSoftmax(scores, lambda)
CalculateSoftmax(scores, lambda) ==
  IF ~IsValidInput(scores) \/ lambda < kMinLambda \/ lambda > kMaxLambda
    THEN UniformProbabilities(Len(scores))
    ELSE ComputeProbabilities(ScaleScores(scores, MaxElement(scores), lambda))

-----------------------------------------------------------------------------
(* Evaluation inside the controller *)

Backends == {"none", "broken", "ok"}   \* null pointer / GetAttributes throws / usable

\* VerifyBackendAvailability()
VerifyBackendAvailability(be) == be = "ok"

\* What the collaborators do during one draw:
\*   hit        GetCachedEvaluation has a value, finite
\*   hit_nan    GetCachedEvaluation has a value, not finite
\*   fresh      cache miss, EvaluateBatch returns one finite result
\*   heur       no usable backend result; the heuristic's noise term is zero
\*   heur_lo    no usable backend result; the heuristic's noise term is negative
\*   heur_throw no usable backend result, and the heuristic part raises
BackendResponses   == {"hit", "hit_nan", "fresh", "heur"}
HeuristicResponses == {"heur", "heur_lo", "heur_throw"}
Responses(be) == IF VerifyBackendAvailability(be) THEN BackendResponses ELSE HeuristicResponses

\* the value head's Q for the position after the move
QValue(mv) == (mv * 400) % 1000
\* the policy head's probability of the move
PolicyValue(mv) == ((mv * 300) % 1000) + 100

\* board.theirs().get(move.to()) || move.is_en_passant()
IsCapture(mv) == mv % 2 = 1
\* destination on d4, d5, e4 or e5
IsCentral(mv) == mv <= 2
\* the draw of std::normal_distribution<float>(0, 0.1)
Noise(resp) == IF resp = "heur_lo" THEN 0 - 700 ELSE 0

\* EvaluateMove, heuristic fallback: capture bonus, centre bonus, noise
HeuristicScore(mv, resp) ==
  (IF IsCapture(mv) THEN 1000 ELSE 0) + (IF IsCentral(mv) THEN 500 ELSE 0) + Noise(resp)

\* EvaluateMove(position, move): [thrown, score, path]
EvaluateMove(be, mv, resp) ==
  IF VerifyBackendAvailability(be) /\ resp = "hit"
    THEN [ thrown |-> FALSE, score |-> QValue(mv), path |-> "cached" ]
  ELSE IF VerifyBackendAvailability(be) /\ resp = "hit_nan"
    THEN [ thrown |-> FALSE, score |-> NaN, path |-> "cached" ]
  ELSE IF VerifyBackendAvailability(be) /\ resp = "fresh"
    THEN [ thrown |-> FALSE, score |-> QValue(mv), path |-> "neural_network" ]
  ELSE IF resp = "heur_throw"
    THEN [ thrown |-> TRUE, score |-> NaN, path |-> "heuristic" ]
  ELSE [ thrown |-> FALSE, score |-> HeuristicScore(mv, resp), path |-> "heuristic" ]

\* What the backend does when EvaluateMove asks it:
\*   GetCachedEvaluation: a finite value, a non-finite value, no value, or it raises
\*   EvaluateBatch:       one result, no result, or it raises
CacheResponses == {"hit", "hit_nan", "miss", "throws"}
BatchResponses == {"result", "empty", "throws"}

\* the calls VerifyBackendAvailability makes on the backend: none on a null
\* pointer
AvailabilityCalls(be) == IF be = "none" THEN <<>> ELSE <<"GetAttributes">>

\* an EvaluateMove that looks in the cache whatever the availability check said
EvaluateMoveCallsUnchecked(be, cache, batch) ==
  AvailabilityCalls(be) \o
  ( IF cache \in {"hit", "hit_nan"} THEN <<"GetCachedEvaluation">>
    ELSE IF cache = "throws" THEN <<"GetCachedEvaluation", "heuristic">>
    ELSE IF batch = "result" THEN <<"GetCachedEvaluation", "EvaluateBatch">>
    ELSE <<"GetCachedEvaluation", "EvaluateBatch", "heuristic">> )

\* EvaluateMove(position, move), the sources it consults in the order it
\* consults them, the last one being the one whose value it returns
EvaluateMoveCalls(be, cache, batch) ==
  AvailabilityCalls(be) \o
  ( IF ~VerifyBackendAvailability(be) THEN <<"heuristic">>
    ELSE IF cache \in {"hit", "hit_nan"} THEN <<"GetCachedEvaluation">>
    ELSE IF cache = "throws" THEN <<"GetCachedEvaluation", "heuristic">>
    ELSE IF batch = "result" THEN <<"GetCachedEvaluation", "EvaluateBatch">>
    ELSE <<"GetCachedEvaluation", "EvaluateBatch", "heuristic">> )

\* the response of the draw model that stands for these backend responses
ResponseOf(cache, batch, heur) ==
  IF cache \in {"hit", "hit_nan"} THEN cache
  ELSE IF cache = "miss" /\ batch = "result" THEN "fresh"
  ELSE heur

\* EvaluateMovePolicy(position, move): [thrown, score, path]
EvaluateMovePolicy(be, pos, mv, resp) ==
  IF VerifyBackendAvailability(be) /\ resp = "hit"
    THEN [ thrown |-> FALSE, score |-> PolicyValue(mv), path |-> "cached" ]
  ELSE IF VerifyBackendAvailability(be) /\ resp = "hit_nan"
    THEN [ thrown |-> FALSE, score |-> NaN, path |-> "cached" ]
  ELSE IF VerifyBackendAvailability(be) /\ resp = "fresh"
    THEN [ thrown |-> FALSE, score |-> PolicyValue(mv), path |-> "neural_network" ]
  ELSE [ thrown |-> FALSE, score |-> 1000 \div Max2(1, Len(pos)), path |-> "heuristic" ]

\* float product, non-finite if either factor is
MulFP(a, b) == IF ~IsFinite(a) \/ ~IsFinite(b) THEN NaN ELSE (a * b) \div 1000

\* a draw that issues each of its evaluations twice
EvalsPerDrawWithRetry(cfg) ==
  IF cfg.sampling_mode = "quantum_limit" /\ cfg.reward_mode = "hybrid" THEN 4 ELSE 2

\* evaluations issued by one draw
EvalsPerDraw(cfg) ==
  IF cfg.sampling_mode = "quantum_limit" /\ cfg.reward_mode = "hybrid" THEN 2 ELSE 1

\* the body of the per-sample try block: the reward for one draw
DrawScore(cfg, be, pos, mv, resp) ==
  IF cfg.sampling_mode = "competitive" THEN EvaluateMove(be, mv, resp)
  ELSE IF cfg.reward_mode = "policy" THEN EvaluateMovePolicy(be, pos, mv, resp)
  ELSE IF cfg.reward_mode = "cp_score" THEN EvaluateMove(be, mv, resp)
  ELSE LET p == EvaluateMovePolicy(be, pos, mv, resp)
           c == EvaluateMove(be, mv, resp)
       IN [ thrown |-> p.thrown \/ c.thrown,
            score  |-> MulFP(p.score, c.score),
            path   |-> c.path ]

\* the eval_method string handed to RecordSample
EvalMethodTag(cfg, be) ==
  LET prefix == IF cfg.sampling_mode = "competitive" THEN "" ELSE cfg.reward_mode \o "_"
  IN prefix \o (IF VerifyBackendAvailability(be)
                  THEN "neural_network_attempted"
                  ELSE "heuristic_backend_unavailable")

\* ValidateSampleCountIntegrity(requested_samples, legal_move_count)
ValidateSampleCountIntegrity(requested_samples, legal_move_count) ==
  requested_samples > 0 /\ legal_move_count > 0

-----------------------------------------------------------------------------
(* The sampling loops *)

\* loop variables of PerformRootNodeSampling / PerformQuantumLimitSampling
\* for one move, plus the monitor and the evaluation count
MoveAccNew(mo, evals) ==
  [ total_score |-> 0, valid_samples |-> 0, attempted_samples |-> 0,
    mon |-> mo, evals |-> evals,
    by_path |-> [ cached |-> 0, neural_network |-> 0, heuristic |-> 0 ] ]

\* an iteration that counts a draw as attempted only once it is known to be valid
DrawRecordCountsValidOnly(cfg, be, d, acc) ==
  IF d.thrown \/ ~IsFinite(d.score) THEN [ acc EXCEPT !.evals = @ + EvalsPerDraw(cfg) ]
  ELSE [ acc EXCEPT !.attempted_samples = @ + 1,
                    !.evals = @ + EvalsPerDraw(cfg),
                    !.total_score = @ + d.score,
                    !.valid_samples = @ + 1,
                    !.by_path[d.path] = @ + 1,
                    !.mon = RecordSample(@, EvalMethodTag(cfg, be), EvalsPerDraw(cfg)) ]

\* the rest of one iteration once the try block has produced d: a draw that
\* threw or is not finite is only counted as attempted; a finite one is added
\* up and handed to RecordSample
DrawRecord(cfg, be, d, acc) ==
  LET a1 == [ acc EXCEPT !.attempted_samples = @ + 1,
                         !.evals = @ + EvalsPerDraw(cfg) ]
  IN IF d.thrown \/ ~IsFinite(d.score) THEN a1
     ELSE [ a1 EXCEPT !.total_score = @ + d.score,
                      !.valid_samples = @ + 1,
                      !.by_path[d.path] = @ + 1,
                      !.mon = RecordSample(@, EvalMethodTag(cfg, be), EvalsPerDraw(cfg)) ]

\* one iteration of the inner for loop: attempted_samples++, the try block,
\* and RecordSample for a finite score
DrawStep(cfg, be, pos, mv, resp, acc) ==
  DrawRecord(cfg, be, DrawScore(cfg, be, pos, mv, resp), acc)

RECURSIVE DrawLoop(_, _, _, _, _, _, _)
\* for (int sample = 0; sample < config_.samples; ++sample)
DrawLoop(cfg, be, pos, mv, rs, sample, acc) ==
  IF sample >= cfg.samples THEN acc
  ELSE DrawLoop(cfg, be, pos, mv, rs, sample + 1,
                DrawStep(cfg, be, pos, mv, rs[sample + 1], acc))

\* state carried across the outer loop
RunAccNew(mo) ==
  [ results |-> <<>>, valid |-> <<>>, attempted |-> <<>>, mon |-> mo, evals |-> 0,
    by_path |-> [ cached |-> 0, neural_network |-> 0, heuristic |-> 0 ] ]

\* an outer loop that keeps a result entry for every move, with or without a
\* valid draw
MoveResultKeepsAll(move, run, a) ==
  [ results   |-> Append(run.results,
                         [ move |-> move,
                           score |-> a.total_score \div Max2(1, a.valid_samples) ]),
    valid     |-> Append(run.valid, a.valid_samples),
    attempted |-> Append(run.attempted, a.attempted_samples),
    mon       |-> a.mon,
    evals     |-> a.evals,
    by_path   |-> [ p \in DOMAIN run.by_path |-> run.by_path[p] + a.by_path[p] ] ]

\* what the outer loop keeps of one move whose draws ended in a: the result
\* entry with the average score when it has a valid draw, and the counts
MoveResult(move, run, a) ==
  [ results   |-> IF a.valid_samples > 0
                    THEN Append(run.results,
                                [ move |-> move,
                                  score |-> a.total_score \div a.valid_samples ])
                    ELSE run.results,
    valid     |-> Append(run.valid, a.valid_samples),
    attempted |-> Append(run.attempted, a.attempted_samples),
    mon       |-> a.mon,
    evals     |-> a.evals,
    by_path   |-> [ p \in DOMAIN run.by_path |-> run.by_path[p] + a.by_path[p] ] ]

\* one iteration of the outer loop: the draws of one move, then the
\* result entry when it has a valid draw
MoveStep(cfg, be, pos, i, draws, run) ==
  MoveResult(pos[i], run,
             DrawLoop(cfg, be, pos, pos[i], draws[i], 0, MoveAccNew(run.mon, run.evals)))

RECURSIVE MoveLoop(_, _, _, _, _, _)
\* for (const auto& move : legal_moves)
MoveLoop(cfg, be, pos, i, draws, run) ==
  IF i > Len(pos) THEN run
  ELSE MoveLoop(cfg, be, pos, i + 1, draws, MoveStep(cfg, be, pos, i, draws, run))

\* the end of a run that passed the integrity gate: EndSampling()
SamplingDone(run) ==
  [ run EXCEPT !.mon = EndSampling(@, run.evals) ] @@ [ gate |-> TRUE ]

\* sampling that starts the monitor session before it looks at the integrity gate
PerformSamplingStartsFirst(cfg, be, mo, pos, draws) ==
  IF ~ValidateSampleCountIntegrity(cfg.samples, Len(pos))
    THEN [ RunAccNew(mo) EXCEPT !.mon = StartSampling(mo, cfg.samples * Len(pos)) ]
           @@ [ gate |-> FALSE ]
    ELSE SamplingDone(MoveLoop(cfg, be, pos, 1, draws,
                               RunAccNew(StartSampling(mo, cfg.samples * Len(pos)))))

\* sampling that announces samples to the monitor, not samples * |legal_moves|
PerformSamplingRequestsSamples(cfg, be, mo, pos, draws) ==
  IF ~ValidateSampleCountIntegrity(cfg.samples, Len(pos))
    THEN [ RunAccNew(mo) EXCEPT !.mon = mo ] @@ [ gate |-> FALSE ]
    ELSE SamplingDone(MoveLoop(cfg, be, pos, 1, draws,
                               RunAccNew(StartSampling(mo, cfg.samples))))

\* PerformRootNodeSampling / PerformQuantumLimitSampling: the integrity gate,
\* StartSampling(samples * |legal_moves|), the loops, EndSampling
PerformSampling(cfg, be, mo, pos, draws) ==
  IF ~ValidateSampleCountIntegrity(cfg.samples, Len(pos))
    THEN [ RunAccNew(mo) EXCEPT !.mon = mo ] @@ [ gate |-> FALSE ]
    ELSE SamplingDone(MoveLoop(cfg, be, pos, 1, draws,
                               RunAccNew(StartSampling(mo, cfg.samples * Len(pos)))))

PerformRootNodeSampling(cfg, be, mo, pos, draws) == PerformSampling(cfg, be, mo, pos, draws)

PerformQuantumLimitSampling(cfg, be, mo, pos, draws) == PerformSampling(cfg, be, mo, pos, draws)

RECURSIVE ArgMaxFrom(_, _, _)
\* the scan "if (probabilities[i] > best_prob)": the first largest entry
ArgMaxFrom(probs, i, best) ==
  IF i > Len(probs) THEN best
  ELSE ArgMaxFrom(probs, i + 1, IF probs[i] > probs[best] THEN i ELSE best)

\* a selection that hands back the first result's move whatever the probabilities
SelectMoveFromSamplingFirst(cfg, results) ==
  IF Len(results) = 0 THEN NullMove ELSE results[1].move

\* a selection that hands back the index of the best entry, not its move
SelectMoveFromSamplingIndex(cfg, results) ==
  IF Len(results) = 0 THEN NullMove
  ELSE LET scores == [ i \in 1..Len(results) |-> results[i].score ]
           probabilities == CalculateSoftmax(scores, cfg.lambda)
       IN IF Len(probabilities) # Len(results) THEN NullMove
          ELSE ArgMaxFrom(probabilities, 2, 1)

\* SelectMoveFromSampling(results, legal_moves)
SelectMoveFromSampling(cfg, results) ==
  IF Len(results) = 0 THEN NullMove
  ELSE LET scores == [ i \in 1..Len(results) |-> results[i].score ]
           probabilities == CalculateSoftmax(scores, cfg.lambda)
       IN IF Len(probabilities) # Len(results) THEN NullMove
          ELSE results[ArgMaxFrom(probabilities, 2, 1)].move

-----------------------------------------------------------------------------
(* SimplePathIntegralController *)

\* where a collaborator may raise during SelectMove(position, limits)
FailPoints == {"none", "session_start", "movegen", "selection"}

\* outcome of a mode handler that returns Move() before or instead of sampling
NoSampling(mo) ==
  [ ret |-> NullMove, mon |-> mo, sampled |-> FALSE, run |-> RunAccNew(mo) @@ [ gate |-> FALSE ] ]

\* the mode handler after sampling: Move() for no results or a failing
\* selection, else SelectMoveFromSampling
HandleResults(cfg, fail, run) ==
  [ ret     |-> IF Len(run.results) = 0 \/ fail = "selection"
                  THEN NullMove
                  ELSE SelectMoveFromSampling(cfg, run.results),
    mon     |-> run.mon,
    sampled |-> run.gate,
    run     |-> run ]

\* HandleCompetitiveMode / HandleQuantumLimitMode: legal moves, sampling,
\* selection, and the catch that turns any exception into Move()
HandleMode(cfg, be, mo, pos, draws, fail) ==
  IF fail = "movegen" \/ Len(pos) = 0 THEN NoSampling(mo)
  ELSE HandleResults(cfg, fail,
                     IF cfg.sampling_mode = "competitive"
                       THEN PerformRootNodeSampling(cfg, be, mo, pos, draws)
                       ELSE PerformQuantumLimitSampling(cfg, be, mo, pos, draws))

HandleCompetitiveMode(cfg, be, mo, pos, draws, fail) == HandleMode(cfg, be, mo, pos, draws, fail)

HandleQuantumLimitMode(cfg, be, mo, pos, draws, fail) == HandleMode(cfg, be, mo, pos, draws, fail)

\* SelectMove(position, limits) around the mode handler's outcome h: the
\* session opened before it and ended after it when debug_logging is set
SelectMoveReturns(cfg, lg, h) ==
  [ ret      |-> h.ret,
    raised   |-> FALSE,
    mon      |-> h.mon,
    logger   |-> IF cfg.debug_logging THEN LoggerEndSession(LoggerStartSession(lg)) ELSE lg,
    sessions |-> IF cfg.debug_logging THEN SessionsOpened(lg) ELSE 0,
    sampled  |-> h.sampled,
    run      |-> h.run ]

\* SelectMove(position, limits) past the enabled check;
\* StartSession(PositionToFen(position)) sits before the try block, so what
\* it raises leaves the call
SelectMoveEnabled(cfg, be, mo, lg, pos, draws, fail) ==
  IF cfg.debug_logging /\ fail = "session_start"
    THEN [ ret |-> NullMove, raised |-> TRUE, mon |-> mo, logger |-> lg,
           sessions |-> 0, sampled |-> FALSE, run |-> NoSampling(mo).run ]
  ELSE SelectMoveReturns(cfg, lg,
                          IF cfg.sampling_mode = "competitive"
                            THEN HandleCompetitiveMode(cfg, be, mo, pos, draws, fail)
                            ELSE HandleQuantumLimitMode(cfg, be, mo, pos, draws, fail))

\* a SelectMove that opens the debug session before it looks at enabled
SelectMoveSessionFirst(cfg, be, mo, lg, pos, draws, fail) ==
  IF ~cfg.enabled
    THEN [ ret |-> NullMove, raised |-> FALSE, mon |-> mo,
           logger |-> IF cfg.debug_logging THEN LoggerStartSession(lg) ELSE lg,
           sessions |-> IF cfg.debug_logging THEN SessionsOpened(lg) ELSE 0,
           sampled |-> FALSE, run |-> NoSampling(mo).run ]
    ELSE SelectMoveEnabled(cfg, be, mo, lg, pos, draws, fail)

\* SelectMove(position, limits)
SelectMove(cfg, be, mo, lg, pos, draws, fail) ==
  IF ~cfg.enabled
    THEN [ ret |-> NullMove, raised |-> FALSE, mon |-> mo, logger |-> lg,
           sessions |-> 0, sampled |-> FALSE, run |-> NoSampling(mo).run ]
    ELSE SelectMoveEnabled(cfg, be, mo, lg, pos, draws, fail)

\* a SetConfig that derives enabled from lambda and samples
SetConfigDerivesEnabled(lg, c) ==
  [ config |-> [ c EXCEPT !.enabled = (c.lambda > 0 /\ c.samples > 0) ],
    logger |-> LoggerSetEnabled(lg, c.debug_logging) ]

\* SetConfig(config): the config and the logger switches
SetConfig(lg, c) == [ config |-> c, logger |-> LoggerSetEnabled(lg, c.debug_logging) ]

\* UpdateConfigFromOptions(options); throws: the first options.Get raises
UpdateConfigFromOptions(lg, o, throws) ==
  IF throws
    THEN [ config |-> [ ConfigDefaults EXCEPT !.enabled = FALSE ], logger |-> lg ]
    ELSE [ config |-> [ o EXCEPT !.enabled = (o.lambda > 0 /\ o.samples > 0) ],
           logger |-> LoggerSetEnabled(lg, o.debug_logging) ]

\* where a collaborator may raise during the score-in SelectMove
ScoreFailPoints == {"none", "selection"}

\* a score-in SelectMove that takes the most probable move in both modes
SelectMoveScoresAlwaysBest(cfg, legal_moves, move_scores, pick, fail) ==
  IF ~cfg.enabled \/ Len(legal_moves) = 0 \/ Len(move_scores) = 0 THEN NullMove
  ELSE IF Len(legal_moves) # Len(move_scores) THEN NullMove
  ELSE IF fail = "selection" THEN NullMove
  ELSE legal_moves[ArgMaxFrom(CalculateSoftmax(move_scores, cfg.lambda), 2, 1)]

\* SelectMove(legal_moves, move_scores, position); pick is the index drawn by
\* std::discrete_distribution over the probabilities
SelectMoveScores(cfg, legal_moves, move_scores, pick, fail) ==
  IF ~cfg.enabled \/ Len(legal_moves) = 0 \/ Len(move_scores) = 0 THEN NullMove
  ELSE IF Len(legal_moves) # Len(move_scores) THEN NullMove
  ELSE IF fail = "selection" THEN NullMove
  ELSE LET probabilities == CalculateSoftmax(move_scores, cfg.lambda)
       IN IF cfg.sampling_mode = "competitive"
            THEN legal_moves[pick]
            ELSE legal_moves[ArgMaxFrom(probabilities, 2, 1)]

\* does the score-in SelectMove reach its try block
ReachesSelection(cfg, legal_moves, move_scores) ==
  cfg.enabled /\ Len(legal_moves) > 0 /\ Len(legal_moves) = Len(move_scores)

\* indices std::discrete_distribution can return: those of positive weight
\* (1 stands for "no draw" when the call never draws)
CanPick(cfg, legal_moves, move_scores, pick) ==
  IF ~ReachesSelection(cfg, legal_moves, move_scores) \/ cfg.sampling_mode # "competitive"
    THEN pick = 1
    ELSE pick \in 1..Len(legal_moves) /\ CalculateSoftmax(move_scores, cfg.lambda)[pick] > 0

\* GetLastSamplingMetrics(): the monitor's GetMetrics(), between runs
GetLastSamplingMetrics(mo) == GetMetrics(mo, mo.m.total_time_ms)

-----------------------------------------------------------------------------
(* Engine::Go, the part that tries the sampler before the default search *)

\* where a collaborator may raise during Go: its own StartSession, or a
\* failure point of SelectMove
GoFailPoints == FailPoints \cup {"go_session_start"}

\* OutputBestMove before OutputThinkingInfo
PublishBestMoveFirst(selected_move, metrics, black) ==
  << [ type |-> "bestmove", move |-> selected_move, player |-> IF black THEN 0 - 1 ELSE 1 ],
     [ type |-> "info", depth |-> 1, seldepth |-> 1, time |-> metrics.total_time_ms,
       nodes |-> metrics.actual_samples, nps |-> SamplesPerSecond(metrics),
       pv |-> <<selected_move>>, multipv |-> 1 ] >>

\* the messages sent for a non-null move: OutputThinkingInfo, then OutputBestMove
Publish(selected_move, metrics, black) ==
  << [ type |-> "info", depth |-> 1, seldepth |-> 1, time |-> metrics.total_time_ms,
       nodes |-> metrics.actual_samples, nps |-> SamplesPerSecond(metrics),
       pv |-> <<selected_move>>, multipv |-> 1 ],
     [ type |-> "bestmove", move |-> selected_move, player |-> IF black THEN 0 - 1 ELSE 1 ] >>

\* a Go that reaches StartSearch whatever was published
SearchesStartedAlways(published) == 1

\* "return;" after the best move, else search_->StartSearch(params)
SearchesStarted(published) == IF published THEN 0 ELSE 1

\* Go after its session start, r being what SelectMove did inside the try
\* block: publish and return for a non-null move, else end the session and
\* start the search
GoReturns(lg0, black, r) ==
  LET published == ~r.raised /\ r.ret # NullMove
  IN [ ret      |-> r.ret,
       raised   |-> FALSE,
       caught   |-> r.raised,
       out      |-> IF published
                      THEN Publish(r.ret, GetLastSamplingMetrics(r.mon), black)
                      ELSE <<>>,
       searches |-> SearchesStarted(published),
       mon      |-> r.mon,
       logger   |-> LoggerEndSession(r.logger),
       sessions |-> SessionsOpened(lg0) + r.sessions,
       sampled  |-> r.sampled,
       run      |-> r.run ]

\* Engine::Go(params); debug_mode is the PathIntegralDebugMode option
Go(cfg, be, mo, lg, debug_mode, pos, draws, fail, black) ==
  LET lg0 == LoggerSetEnabled(lg, debug_mode)
  IN IF ~cfg.enabled
       THEN [ ret |-> NullMove, raised |-> FALSE, caught |-> FALSE, out |-> <<>>,
              searches |-> SearchesStarted(FALSE), mon |-> mo, logger |-> lg0,
              sessions |-> 0, sampled |-> FALSE, run |-> NoSampling(mo).run ]
     ELSE IF lg0.enabled /\ fail = "go_session_start"
       THEN [ ret |-> NullMove, raised |-> TRUE, caught |-> FALSE, out |-> <<>>,
              searches |-> 0, mon |-> mo, logger |-> lg0,
              sessions |-> 0, sampled |-> FALSE, run |-> NoSampling(mo).run ]
     ELSE GoReturns(lg0, black,
                    SelectMove(cfg, be, mo, LoggerStartSession(lg0), pos, draws, fail))

-----------------------------------------------------------------------------
(* PathIntegralSamplingVerifier *)

kSampleCountTolerancePercent == 5
kMinReasonableTimePerSampleMicro == 1        \* 0.001 ms
kMaxReasonableTimePerSampleMicro == 1000000  \* 1000.0 ms
max_expected_time_ms == 10000

\* a default-constructed VerificationResult
VerificationResultNew ==
  [ samples_match_requested |-> FALSE, neural_net_used |-> FALSE,
    timing_reasonable |-> FALSE, backend_available |-> FALSE,
    sampling_completed |-> FALSE,
    requested_samples |-> 0, actual_samples |-> 0, neural_net_evaluations |-> 0,
    cached_evaluations |-> 0, heuristic_evaluations |-> 0, total_time_ms |-> 0,
    warnings |-> <<>>, errors |-> <<>> ]

\* VerificationResult::IsValid
IsValid(result) ==
  result.samples_match_requested /\ result.sampling_completed /\ result.errors = <<>>

\* ValidateSampleCounts(metrics, requested_samples)
ValidateSampleCounts(metrics, requested_samples) ==
  IF metrics.actual_samples = requested_samples THEN TRUE
  ELSE LET tolerance == Max2((requested_samples * kSampleCountTolerancePercent) \div 100, 1)
       IN Abs(metrics.actual_samples - requested_samples) <= tolerance

\* ValidateNeuralNetworkUsage(metrics)
ValidateNeuralNetworkUsage(be, metrics) ==
  IF be # "none"
    THEN metrics.neural_net_evaluations > 0 \/ metrics.cached_evaluations > 0
    ELSE metrics.heuristic_evaluations > 0

\* ValidateTimingReasonableness(metrics, scenario), scenario limits at their defaults
ValidateTimingReasonableness(metrics) ==
  /\ AvgTimePerSampleMicro(metrics) >= kMinReasonableTimePerSampleMicro
  /\ AvgTimePerSampleMicro(metrics) <= kMaxReasonableTimePerSampleMicro
  /\ metrics.total_time_ms <= max_expected_time_ms

\* AnalyzePerformanceMetrics(result, metrics): the warnings and the error it adds
AnalyzePerformanceMetrics(result, metrics) ==
  LET total_evaluations == metrics.neural_net_evaluations + metrics.cached_evaluations
                             + metrics.heuristic_evaluations
      w1 == IF result.backend_available /\ metrics.neural_net_evaluations = 0
              THEN <<"no_neural_network_evaluations">> ELSE <<>>
      w2 == IF metrics.actual_samples > 0 /\ AvgTimePerSampleMicro(metrics) < 10
              THEN <<"extremely_fast_sampling">> ELSE <<>>
      w3 == IF metrics.actual_samples # result.requested_samples
              THEN <<"sample_count_mismatch">> ELSE <<>>
      w4 == IF total_evaluations # 0 /\ total_evaluations < metrics.actual_samples
              THEN <<"fewer_evaluations_than_samples">> ELSE <<>>
  IN [ result EXCEPT
         !.warnings = @ \o w1 \o w2 \o w3 \o w4,
         !.errors = IF total_evaluations = 0 THEN Append(@, "no_evaluations") ELSE @ ]

\* VerifySampling after SetConfig(config), r being what SelectMove did inside
\* the try block: the result fields read off the controller's last metrics,
\* or the error the catch block records
VerifyReturns(be, c, r) ==
  LET metrics == GetLastSamplingMetrics(r.mon)
      r0 == [ VerificationResultNew EXCEPT
                !.requested_samples = c.samples,
                !.backend_available = (be # "none"),
                !.warnings = IF be # "none" THEN <<>> ELSE <<"no_backend">> ]
      r1 == [ r0 EXCEPT
                !.total_time_ms = r.run.evals,
                !.sampling_completed = (r.ret # NullMove),
                !.actual_samples = metrics.actual_samples,
                !.neural_net_evaluations = metrics.neural_net_evaluations,
                !.cached_evaluations = metrics.cached_evaluations,
                !.heuristic_evaluations = metrics.heuristic_evaluations,
                !.samples_match_requested = ValidateSampleCounts(metrics, c.samples),
                !.neural_net_used = ValidateNeuralNetworkUsage(be, metrics),
                !.timing_reasonable = ValidateTimingReasonableness(metrics) ]
  IN [ result |-> IF r.raised
                    THEN [ r0 EXCEPT !.errors = Append(@, "exception"),
                                     !.sampling_completed = FALSE ]
                    ELSE AnalyzePerformanceMetrics(r1, metrics),
       config |-> c, ret |-> r.ret, raised |-> FALSE, caught |-> r.raised,
       mon |-> r.mon, logger |-> r.logger, sessions |-> r.sessions,
       sampled |-> r.sampled, run |-> r.run ]

\* VerifySampling(position, config, limits): [result, config, logger, mon, run, ...]
VerifySampling(be, mo, lg, c, pos, draws, fail) ==
  VerifyReturns(be, c,
                SelectMove(SetConfig(lg, c).config, be, mo, SetConfig(lg, c).logger,
                           pos, draws, fail))

\* a default-constructed ComprehensiveVerificationReport
ReportNew ==
  [ individual_results |-> <<>>, total_tests |-> 0, passed_tests |-> 0,
    failed_tests |-> 0, warnings_count |-> 0, errors_count |-> 0 ]

\* the results of a report that IsValid() / that are not
PassedOf(results) == { i \in 1..Len(results) : IsValid(results[i]) }

RECURSIVE SumSizes(_, _, _)
\* the sizes of one list field of the first n results, added up
SumSizes(results, field, n) ==
  IF n = 0 THEN 0 ELSE SumSizes(results, field, n - 1) + Len(results[n][field])

\* a GenerateSummaryStatistics that counts as failed the results with errors
GenerateSummaryStatisticsFailedByErrors(results) ==
  [ individual_results |-> results,
    total_tests    |-> Len(results),
    passed_tests   |-> Cardinality(PassedOf(results)),
    failed_tests   |-> Cardinality({ i \in 1..Len(results) : results[i].errors # <<>> }),
    warnings_count |-> SumSizes(results, "warnings", Len(results)),
    errors_count   |-> SumSizes(results, "errors", Len(results)) ]

\* GenerateSummaryStatistics(report), the counters
GenerateSummaryStatistics(results) ==
  [ individual_results |-> results,
    total_tests    |-> Len(results),
    passed_tests   |-> Cardinality(PassedOf(results)),
    failed_tests   |-> Len(results) - Cardinality(PassedOf(results)),
    warnings_count |-> SumSizes(results, "warnings", Len(results)),
    errors_count   |-> SumSizes(results, "errors", Len(results)) ]

\* ComprehensiveVerificationReport::IsOverallSuccess
IsOverallSuccess(report) == report.failed_tests = 0 /\ report.errors_count = 0

\* VerifyIndividualScenario that returns the default result for a FEN that
\* does not parse
VerifyIndividualScenarioDropsError(be, mo, lg, cfg, scenario) ==
  IF ~scenario.fen_valid
    THEN [ result |-> VerificationResultNew, config |-> cfg, mon |-> mo, logger |-> lg ]
    ELSE VerifySampling(be, mo, lg, scenario.config, scenario.pos, scenario.draws,
                        scenario.fail)

\* VerifyIndividualScenario(scenario): Position::FromFen raises for a bad FEN
\* and the result carries the error; otherwise VerifySampling
VerifyIndividualScenario(be, mo, lg, cfg, scenario) ==
  IF ~scenario.fen_valid
    THEN [ result |-> [ VerificationResultNew EXCEPT !.errors = <<"invalid_fen">> ],
           config |-> cfg, mon |-> mo, logger |-> lg ]
    ELSE VerifySampling(be, mo, lg, scenario.config, scenario.pos, scenario.draws,
                        scenario.fail)

\* the loop body: the scenario's result is pushed onto the report and the
\* controller is left as the scenario left it
ScenarioDone(acc, v) ==
  [ results |-> Append(acc.results, v.result), config |-> v.config,
    mon |-> v.mon, logger |-> v.logger ]

RECURSIVE RunScenarios(_, _, _, _)
\* the loop of RunComprehensiveTest and of the performance and edge-case
\* suites over the scenarios from the i-th on
RunScenarios(be, scenarios, i, acc) ==
  IF i > Len(scenarios) THEN acc
  ELSE RunScenarios(be, scenarios, i + 1,
         ScenarioDone(acc, VerifyIndividualScenario(be, acc.mon, acc.logger, acc.config,
                                                    scenarios[i])))

\* the end of a suite: GenerateSummaryStatistics over the results pushed
SuiteReturns(after) ==
  [ report |-> GenerateSummaryStatistics(after.results), after |-> after ]

\* RunComprehensiveTest(positions): the report, and the controller after it
RunComprehensiveTest(be, mo, lg, cfg, scenarios) ==
  SuiteReturns(RunScenarios(be, scenarios, 1,
                 [ results |-> <<>>, config |-> cfg, mon |-> mo, logger |-> lg ]))

\* the exit code of the verification tool: main returns 0 after Run
MainReturns == 0

-----------------------------------------------------------------------------
(* Inputs *)

LambdaVals == {100}
ScoreVals  == {0, 1000, NaN}

\* configurations a caller may hand to SetConfig
Configs ==
  { c \in [ lambda : LambdaVals, samples : 0..MaxSamples, reward_mode : RewardModes,
            sampling_mode : SamplingModes, enabled : BOOLEAN, debug_logging : BOOLEAN ] :
      c.sampling_mode = "competitive" => c.reward_mode = "hybrid" }

\* option bags the options parser accepts (its ranges hold)
OptionBags ==
  { c \in Configs : c.lambda >= kMinLambda /\ c.samples >= 1 /\ ~c.enabled }

\* legal-move lists: no move twice
Positions ==
  UNION { { p \in [1..n -> Moves] : \A i, j \in 1..n : i # j => p[i] # p[j] } : n \in 0..MaxLegal }

\* the legal-move lists in ascending order of the moves
SortedPositions ==
  { p \in Positions : \A i \in 1..(Len(p) - 1) : p[i] < p[i + 1] }

\* a fixed order of the responses, to list the draws of one move canonically
ResponseRank(resp) ==
  CASE resp = "hit" -> 1 [] resp = "hit_nan" -> 2 [] resp = "fresh" -> 3
    [] resp = "heur" -> 4 [] resp = "heur_lo" -> 5 [] resp = "heur_throw" -> 6

\* the draws of one move: the loop only adds up scores and counts, so each
\* multiset of responses is listed once, in rank order
MoveDraws(be, k) ==
  { rs \in [ 1..k -> Responses(be) ] :
      \A j \in 1..(k - 1) : ResponseRank(rs[j]) <= ResponseRank(rs[j + 1]) }

\* does a SelectMove(position, limits) with this failure point reach the draws
ReachesDraws(cfg, fail) ==
  cfg.enabled /\ cfg.samples > 0 /\ fail \notin {"session_start", "movegen", "go_session_start"}

\* the collaborators' behaviour for every draw of a run
DrawPlans(cfg, be, pos, fail) ==
  IF ~ReachesDraws(cfg, fail)
    THEN { [ i \in 1..Len(pos) |-> <<>> ] }
    ELSE [ 1..Len(pos) -> MoveDraws(be, cfg.samples) ]

\* the runs in which all draws of a move meet the same response
UniformPlans(cfg, be, pos, fail) ==
  { draws \in DrawPlans(cfg, be, pos, fail) :
      \A i \in 1..Len(pos) : \A j \in 1..Len(draws[i]) : draws[i][j] = draws[i][1] }

\* configurations the verifier's scenarios hand to VerifySampling: enabled,
\* competitive or quantum-limit with the policy reward
VerifierConfigs ==
  { c \in Configs : c.enabled /\ (c.sampling_mode = "quantum_limit" => c.reward_mode = "policy") }

\* failure points explored under the verifier
VerifierFailPoints == {"none", "session_start"}

\* what the caller holds when it holds nothing
CallNone ==
  [ op |-> "none", ret |-> NullMove, raised |-> FALSE, caught |-> FALSE,
    legal |-> <<>>, samples |-> 0,
    sessions |-> 0, sampled |-> FALSE, evals |-> 0,
    results |-> <<>>, valid |-> <<>>, attempted |-> <<>>,
    by_path |-> [ cached |-> 0, neural_network |-> 0, heuristic |-> 0 ],
    out |-> <<>>, searches |-> 0,
    metrics |-> MetricsReset, result |-> VerificationResultNew,
    arg |-> ConfigDefaults, got |-> ConfigDefaults, was_active |-> FALSE,
    scenarios |-> <<>>, report |-> ReportNew, reported |-> FALSE, exit_code |-> 0 - 1,
    scores |-> <<>>, lambda |-> 0, probs |-> <<>>, bad |-> <<>>,
    calls |-> <<>>, env |-> [ cache |-> "", batch |-> "", heur |-> "" ], move |-> NullMove,
    score |-> 0, source |-> "", written |-> <<>>, ended |-> {} ]

\* what the caller holds after a call that ran SelectMove(position, limits)
CallOfSelect(op, cfg, pos, r) ==
  [ CallNone EXCEPT !.op = op, !.ret = r.ret, !.raised = r.raised, !.legal = pos,
                    !.samples = cfg.samples, !.sessions = r.sessions,
                    !.sampled = r.sampled, !.evals = r.run.evals,
                    !.results = r.run.results, !.valid = r.run.valid,
                    !.attempted = r.run.attempted, !.by_path = r.run.by_path ]

\* the caller holds no unread result
Idle == call.op = "none"

\* the caller has read the result of its last call and goes on
CallerContinues ==
  /\ ~Idle
  /\ call' = CallNone
  /\ UNCHANGED <<mon, config, backend, logger>>

-----------------------------------------------------------------------------
(* The controller driven directly *)

\* the constructor: a fresh monitor, then UpdateConfigFromOptions(options)
Constructed(be) ==
  /\ mon = MonitorNew
  /\ backend = be
  /\ \E o \in OptionBags, throws \in BOOLEAN :
       /\ config = UpdateConfigFromOptions(LoggerNew, o, throws).config
       /\ logger = UpdateConfigFromOptions(LoggerNew, o, throws).logger
  /\ call = CallNone

Init == \E be \in Backends : Constructed(be)

CtlSetConfig ==
  /\ Idle
  /\ \E c \in Configs :
       \E s \in { SetConfig(logger, c) } :
         /\ config' = s.config
         /\ logger' = s.logger
  /\ UNCHANGED <<mon, backend, call>>

CtlUpdateOptions ==
  /\ Idle
  /\ \E o \in OptionBags, throws \in BOOLEAN :
       \E u \in { UpdateConfigFromOptions(logger, o, throws) } :
         /\ config' = u.config
         /\ logger' = u.logger
  /\ UNCHANGED <<mon, backend, call>>

\* can this failure point be reached by SelectMove(position, limits)
FailReachable(cfg, pos, fail) ==
  CASE fail = "none"          -> TRUE
    [] fail = "session_start" -> cfg.enabled /\ cfg.debug_logging
    [] fail = "movegen"       -> cfg.enabled
    [] fail = "selection"     -> cfg.enabled /\ ValidateSampleCountIntegrity(cfg.samples, Len(pos))
    [] OTHER                  -> FALSE

\* inputs of one explored SelectMove(position, limits)
SelectInputs(cfg, positions, fails) ==
  { in \in [ pos : positions, fail : fails ] :
      /\ cfg.samples * Len(in.pos) <= MaxDraws
      /\ FailReachable(cfg, in.pos, in.fail) }

\* how many of each move's draws throw or give a non-finite score
BadDraws(cfg, be, pos, draws) ==
  [ i \in 1..Len(pos) |->
      Cardinality({ j \in 1..Len(draws[i]) :
                      \/ DrawScore(cfg, be, pos, pos[i], draws[i][j]).thrown
                      \/ ~IsFinite(DrawScore(cfg, be, pos, pos[i], draws[i][j]).score) }) ]

CtlSelectMove ==
  /\ Idle
  /\ \E in \in SelectInputs(config, Positions, FailPoints) :
       \E draws \in DrawPlans(config, backend, in.pos, in.fail) :
         \E r \in { SelectMove(config, backend, mon, logger, in.pos, draws, in.fail) } :
            /\ mon' = r.mon
            /\ logger' = r.logger
            /\ call' = [ CallOfSelect("SelectMove", config, in.pos, r) EXCEPT
                           !.bad = BadDraws(config, backend, in.pos, draws) ]
  /\ UNCHANGED <<config, backend>>

\* score lists as long as the move list, or one short
ScoreLists(n) ==
  [ 1..n -> ScoreVals ] \cup (IF n > 0 THEN [ 1..(n - 1) -> ScoreVals ] ELSE {})

\* may this failure point and this drawn index go with these inputs
ScoreInputOk(cfg, legal_moves, move_scores, pick, fail) ==
  /\ fail = "selection" => ReachesSelection(cfg, legal_moves, move_scores)
  /\ CanPick(cfg, legal_moves, move_scores, pick)

CtlSelectMoveScores ==
  /\ Idle
  /\ \E legal_moves \in SortedPositions :
       \E move_scores \in ScoreLists(Len(legal_moves)) :
         \E pick \in 1..MaxLegal, fail \in ScoreFailPoints :
           /\ ScoreInputOk(config, legal_moves, move_scores, pick, fail)
           /\ call' = [ CallNone EXCEPT
                          !.op = "SelectMoveScores",
                          !.ret = SelectMoveScores(config, legal_moves, move_scores, pick, fail),
                          !.legal = legal_moves, !.samples = config.samples ]
  /\ UNCHANGED <<mon, config, backend, logger>>

Next ==
  \/ CtlSetConfig
  \/ CtlUpdateOptions
  \/ CtlSelectMove
  \/ CtlSelectMoveScores
  \/ CallerContinues

Spec == Init /\ [][Next]_vars

-----------------------------------------------------------------------------
(* The performance monitor driven directly *)

\* records taken in the current session
Recorded(mo) ==
  mo.m.neural_net_evaluations + mo.m.cached_evaluations + mo.m.heuristic_evaluations

InitMonitor ==
  /\ mon = MonitorNew
  /\ backend = "none"
  /\ config = ConfigDefaults
  /\ logger = LoggerNew
  /\ call = CallNone

\* the caller's last call on the monitor, and whether a session was active
MonitorCall(op) == [ CallNone EXCEPT !.op = op, !.was_active = mon.active ]

MonSetEnabled ==
  /\ Idle
  /\ \E b \in BOOLEAN : mon' = [ mon EXCEPT !.enabled = b ]
  /\ call' = MonitorCall("SetEnabled")
  /\ UNCHANGED <<config, backend, logger>>

MonStartSampling ==
  /\ Idle
  /\ \E n \in 0..MaxCount :
       /\ mon' = StartSampling(mon, n)
       /\ call' = [ MonitorCall("StartSampling") EXCEPT !.samples = n ]
  /\ UNCHANGED <<config, backend, logger>>

MonRecordSample ==
  /\ Idle
  /\ Recorded(mon) < MaxCount
  /\ \E eval_method \in EvalMethods, time_ms \in 0..1 :
       mon' = RecordSample(mon, eval_method, time_ms)
  /\ call' = MonitorCall("RecordSample")
  /\ UNCHANGED <<config, backend, logger>>

MonRecordNeuralNetEvaluation ==
  /\ Idle
  /\ Recorded(mon) < MaxCount
  /\ \E time_ms \in 0..1 : mon' = RecordNeuralNetEvaluation(mon, time_ms)
  /\ call' = MonitorCall("RecordNeuralNetEvaluation")
  /\ UNCHANGED <<config, backend, logger>>

MonRecordCachedEvaluation ==
  /\ Idle
  /\ Recorded(mon) < MaxCount
  /\ mon' = RecordCachedEvaluation(mon)
  /\ call' = MonitorCall("RecordCachedEvaluation")
  /\ UNCHANGED <<config, backend, logger>>

MonRecordHeuristicEvaluation ==
  /\ Idle
  /\ Recorded(mon) < MaxCount
  /\ mon' = RecordHeuristicEvaluation(mon)
  /\ call' = MonitorCall("RecordHeuristicEvaluation")
  /\ UNCHANGED <<config, backend, logger>>

MonEndSampling ==
  /\ Idle
  /\ \E elapsed \in 0..MaxCount : mon' = EndSampling(mon, elapsed)
  /\ call' = MonitorCall("EndSampling")
  /\ UNCHANGED <<config, backend, logger>>

MonGetMetrics ==
  /\ Idle
  /\ \E elapsed \in 0..MaxCount :
       call' = [ CallNone EXCEPT !.op = "GetMetrics", !.metrics = GetMetrics(mon, elapsed) ]
  /\ UNCHANGED <<mon, config, backend, logger>>

NextMonitor ==
  \/ MonSetEnabled
  \/ MonStartSampling
  \/ MonRecordSample
  \/ MonRecordNeuralNetEvaluation
  \/ MonRecordCachedEvaluation
  \/ MonRecordHeuristicEvaluation
  \/ MonEndSampling
  \/ MonGetMetrics
  \/ CallerContinues

SpecMonitor == InitMonitor /\ [][NextMonitor]_vars

-----------------------------------------------------------------------------
(* The engine adapter *)

\* Engine::NewGame: UpdateOptions(options_)
EngNewGame ==
  /\ Idle
  /\ \E o \in OptionBags, throws \in BOOLEAN :
       \E u \in { UpdateConfigFromOptions(logger, o, throws) } :
         /\ config' = u.config
         /\ logger' = u.logger
  /\ UNCHANGED <<mon, backend, call>>

\* inputs of one explored Go
GoInputs(cfg, debug_mode) ==
  { in \in [ pos : SortedPositions, fail : GoFailPoints ] :
      /\ cfg.samples * Len(in.pos) <= MaxDraws
      /\ IF in.fail = "go_session_start"
           THEN cfg.enabled /\ debug_mode
           ELSE FailReachable(cfg, in.pos, in.fail) }

EngGo ==
  /\ Idle
  /\ \E debug_mode \in BOOLEAN, black \in BOOLEAN :
       \E in \in GoInputs(config, debug_mode) :
         \E draws \in UniformPlans(config, backend, in.pos, in.fail) :
           \E r \in { Go(config, backend, mon, logger, debug_mode, in.pos, draws, in.fail, black) } :
              /\ mon' = r.mon
              /\ logger' = r.logger
              /\ call' = [ CallOfSelect("Go", config, in.pos, r) EXCEPT
                             !.caught = r.caught, !.out = r.out, !.searches = r.searches ]
  /\ UNCHANGED <<config, backend>>

NextEngine ==
  \/ EngNewGame
  \/ EngGo
  \/ CallerContinues

SpecEngine == Init /\ [][NextEngine]_vars

-----------------------------------------------------------------------------
(* The sampling verifier *)

\* the constructor builds its controller without a backend
InitVerifier == Constructed("none")

\* SetBackend(backend): a new controller around the new backend
VerSetBackend ==
  /\ Idle
  /\ \E be \in Backends : backend' = be
  /\ mon' = MonitorNew
  /\ \E o \in OptionBags, throws \in BOOLEAN :
       \E u \in { UpdateConfigFromOptions(logger, o, throws) } :
         /\ config' = u.config
         /\ logger' = u.logger
  /\ UNCHANGED call

\* UpdateOptions(options)
VerUpdateOptions ==
  /\ Idle
  /\ \E o \in OptionBags, throws \in BOOLEAN :
       \E u \in { UpdateConfigFromOptions(logger, o, throws) } :
         /\ config' = u.config
         /\ logger' = u.logger
  /\ UNCHANGED <<mon, backend, call>>

VerVerifySampling ==
  /\ Idle
  /\ \E c \in VerifierConfigs :
       \E in \in SelectInputs(c, SortedPositions, VerifierFailPoints) :
         \E draws \in UniformPlans(c, backend, in.pos, in.fail) :
           \E v \in { VerifySampling(backend, mon, logger, c, in.pos, draws, in.fail) } :
              /\ config' = v.config
              /\ mon' = v.mon
              /\ logger' = v.logger
              /\ call' = [ CallOfSelect("VerifySampling", c, in.pos, v) EXCEPT
                             !.caught = v.caught, !.result = v.result ]
  /\ UNCHANGED backend

NextVerifier ==
  \/ VerSetBackend
  \/ VerUpdateOptions
  \/ VerVerifySampling
  \/ CallerContinues

SpecVerifier == InitVerifier /\ [][NextVerifier]_vars

-----------------------------------------------------------------------------
(* The controller's configuration, driven with configs of every kind *)

\* lambda values a caller may put in a config: 0.0, 0.1 and 20.0
WideLambdaVals == {0, 100, 20000}

\* sample counts a caller may put in a config, a negative one included
WideSampleVals == (0 - 1)..MaxSamples

\* configurations a caller may hand to SetConfig, valid or not
WideConfigs ==
  { c \in [ lambda : WideLambdaVals, samples : WideSampleVals, reward_mode : RewardModes,
            sampling_mode : SamplingModes, enabled : BOOLEAN, debug_logging : BOOLEAN ] :
      c.sampling_mode = "competitive" => c.reward_mode = "hybrid" }

\* PathIntegralConfig::IsValid
ConfigIsValid(c) ==
  c.lambda >= 1 /\ c.lambda <= 10000 /\ c.samples >= 1 /\ c.samples <= 100000

\* IsEnabled()
IsEnabled(cfg) == cfg.enabled

\* GetConfig()
GetConfig(cfg) == cfg

CfgSetConfig ==
  /\ Idle
  /\ \E c \in WideConfigs :
       \E s \in { SetConfig(logger, c) } :
         /\ config' = s.config
         /\ logger' = s.logger
         /\ call' = [ CallNone EXCEPT !.op = "SetConfig", !.arg = c ]
  /\ UNCHANGED <<mon, backend>>

CfgUpdateOptions ==
  /\ Idle
  /\ \E o \in OptionBags, throws \in BOOLEAN :
       \E u \in { UpdateConfigFromOptions(logger, o, throws) } :
         /\ config' = u.config
         /\ logger' = u.logger
         /\ call' = [ CallNone EXCEPT !.op = "UpdateOptions", !.arg = o ]
  /\ UNCHANGED <<mon, backend>>

\* GetConfig(), called right after SetConfig returned or at any idle moment
CfgGetConfig ==
  /\ Idle \/ call.op = "SetConfig"
  /\ call' = [ CallNone EXCEPT
                 !.op = IF call.op = "SetConfig" THEN "GetConfigAfterSet" ELSE "GetConfig",
                 !.arg = call.arg,
                 !.got = GetConfig(config) ]
  /\ UNCHANGED <<mon, config, backend, logger>>

CfgSelectMove ==
  /\ Idle
  /\ \E in \in SelectInputs(config, SortedPositions, FailPoints) :
       \E draws \in UniformPlans(config, backend, in.pos, in.fail) :
         \E r \in { SelectMove(config, backend, mon, logger, in.pos, draws, in.fail) } :
            /\ mon' = r.mon
            /\ logger' = r.logger
            /\ call' = CallOfSelect("SelectMove", config, in.pos, r)
  /\ UNCHANGED <<config, backend>>

NextConfig ==
  \/ CfgSetConfig
  \/ CfgUpdateOptions
  \/ CfgGetConfig
  \/ CfgSelectMove
  \/ CallerContinues

SpecConfig == Init /\ [][NextConfig]_vars

-----------------------------------------------------------------------------
(* PathIntegralDebugLogger: its sinks, its session and the events it writes *)

\* the ids GenerateSessionId may produce; two sessions may draw the same one
SessionIds == {"s1", "s2"}

\* the names a caller may give the output file; "" is the empty string
FileNames == {"", "debug.log"}

\* the logger after construction; log holds every entry WriteLogEntry was
\* given, each with the sinks it was written to; file_created is whether the
\* output file exists on disk; output_filename is output_filename_, and
\* file_name is the path output_file_ was opened on, "" while there is none
DebugLoggerNew ==
  [ enabled |-> FALSE, output_to_stderr |-> TRUE,
    output_filename |-> "", file_name |-> "",
    file_open |-> FALSE, file_created |-> FALSE,
    current_session_id |-> "", session_active |-> FALSE, log |-> <<>> ]

\* SetEnabled(enabled)
SetEnabled(lg, b) == [ lg EXCEPT !.enabled = b ]

\* a SetOutputFile that opens the file whether the logger is enabled or not
SetOutputFileAlwaysOpens(lg, filename, opens) ==
  IF filename # ""
    THEN [ lg EXCEPT !.output_filename = filename,
                     !.file_name = IF opens THEN filename ELSE "",
                     !.file_open = opens, !.file_created = @ \/ opens ]
    ELSE [ lg EXCEPT !.output_filename = filename ]

\* SetOutputFile(filename); opens: the append-mode open succeeds
SetOutputFile(lg, filename, opens) ==
  IF filename # "" /\ lg.enabled
    THEN [ lg EXCEPT !.output_filename = filename,
                     !.file_name = IF opens THEN filename ELSE "",
                     !.file_open = opens, !.file_created = @ \/ opens ]
    ELSE [ lg EXCEPT !.output_filename = filename ]

\* SetOutputToStderr(to_stderr)
SetOutputToStderr(lg, b) == [ lg EXCEPT !.output_to_stderr = b ]

\* WriteLogEntry(event_type, data): one line to stderr if output_to_stderr_,
\* one line to the file if it is open; sid is the session_id of the data
WriteLogEntry(lg, event_type, sid) ==
  [ lg EXCEPT !.log = Append(@, [ type |-> event_type, sid |-> sid,
                                  stderr |-> lg.output_to_stderr,
                                  file |-> lg.file_open ]) ]

\* EndSession()
EndSession(lg) ==
  IF ~lg.enabled \/ ~lg.session_active THEN lg
  ELSE [ WriteLogEntry(lg, "session_end", lg.current_session_id)
           EXCEPT !.session_active = FALSE, !.current_session_id = "" ]

\* the rest of StartSession once an active session was ended
SessionStarted(lg, id) ==
  WriteLogEntry([ lg EXCEPT !.current_session_id = id, !.session_active = TRUE ],
                "session_start", id)

\* a StartSession that does not end the session that is active
StartSessionKeepsOld(lg, id) ==
  IF ~lg.enabled THEN lg ELSE SessionStarted(lg, id)

\* StartSession(position_fen); id: what GenerateSessionId returns
StartSession(lg, id) ==
  IF ~lg.enabled THEN lg
  ELSE SessionStarted(IF lg.session_active THEN EndSession(lg) ELSE lg, id)

\* the entry points that log inside a session only, and their event types
SessionEvents ==
  [ LogSamplingStart |-> "sampling_start",
    LogSampleEvaluation |-> "sample_evaluation",
    LogSamplingComplete |-> "sampling_complete",
    LogMoveSelection |-> "move_selection",
    LogNeuralNetworkCall |-> "neural_network_call",
    LogSoftmaxCalculation |-> "softmax_calculation" ]

\* the entry points that log with or without a session, and their event types
MessageEvents ==
  [ LogWarning |-> "warning", LogError |-> "error", LogInfo |-> "info" ]

\* LogSamplingStart ... LogSoftmaxCalculation
LogSessionEvent(lg, entry_point) ==
  IF ~lg.enabled \/ ~lg.session_active THEN lg
  ELSE WriteLogEntry(lg, SessionEvents[entry_point], lg.current_session_id)

\* LogWarning, LogError, LogInfo
LogMessage(lg, entry_point) ==
  IF ~lg.enabled THEN lg
  ELSE WriteLogEntry(lg, MessageEvents[entry_point],
                     IF lg.session_active THEN lg.current_session_id ELSE "none")

\* the entries of a history that are not session_start or session_end
Messages(log) ==
  Cardinality({ i \in 1..Len(log) : log[i].type \notin {"session_start", "session_end"} })

\* the entry points that write an event of their own
EventEntryPoints == DOMAIN SessionEvents \cup DOMAIN MessageEvents

InitLogger ==
  /\ mon = MonitorNew
  /\ backend = "none"
  /\ config = ConfigDefaults
  /\ logger = DebugLoggerNew
  /\ call = CallNone

\* the caller's last call on the logger
LoggerCall(op) == [ CallNone EXCEPT !.op = op ]

\* the entries of a history that reached a sink: stderr or the file
Emitted(log) == SelectSeq(log, LAMBDA e : e.stderr \/ e.file)

\* session_start entries less session_end entries of a history
OpenSessions(log) ==
  Cardinality({ i \in 1..Len(log) : log[i].type = "session_start" })
    - Cardinality({ i \in 1..Len(log) : log[i].type = "session_end" })

\* the session_id the data of an event written now would carry
CurrentSessionId(lg) == IF lg.session_active THEN lg.current_session_id ELSE "none"

DlSetEnabled ==
  /\ \E b \in BOOLEAN : logger' = SetEnabled(logger, b)
  /\ call' = LoggerCall("SetEnabled")
  /\ UNCHANGED <<mon, config, backend>>

DlSetOutputFile ==
  /\ \E f \in FileNames, opens \in BOOLEAN :
       /\ logger' = SetOutputFile(logger, f, opens)
       /\ call' = [ LoggerCall("SetOutputFile") EXCEPT !.out = <<f>> ]
  /\ UNCHANGED <<mon, config, backend>>

DlSetOutputToStderr ==
  /\ \E b \in BOOLEAN : logger' = SetOutputToStderr(logger, b)
  /\ call' = LoggerCall("SetOutputToStderr")
  /\ UNCHANGED <<mon, config, backend>>

DlStartSession ==
  /\ \E id \in SessionIds : logger' = StartSession(logger, id)
  /\ Len(logger'.log) <= MaxEvents
  /\ call' = LoggerCall("StartSession")
  /\ UNCHANGED <<mon, config, backend>>

DlEndSession ==
  /\ logger' = EndSession(logger)
  /\ Len(logger'.log) <= MaxEvents
  /\ call' = LoggerCall("EndSession")
  /\ UNCHANGED <<mon, config, backend>>

DlLogSessionEvent ==
  /\ \E ep \in DOMAIN SessionEvents :
       /\ logger' = LogSessionEvent(logger, ep)
       /\ call' = LoggerCall(ep)
  /\ Len(logger'.log) <= MaxEvents
  /\ Messages(logger'.log) <= MaxMessages
  /\ UNCHANGED <<mon, config, backend>>

DlLogMessage ==
  /\ \E ep \in DOMAIN MessageEvents :
       /\ logger' = LogMessage(logger, ep)
       /\ call' = LoggerCall(ep)
  /\ Len(logger'.log) <= MaxEvents
  /\ Messages(logger'.log) <= MaxMessages
  /\ UNCHANGED <<mon, config, backend>>

NextLogger ==
  \/ DlSetEnabled
  \/ DlSetOutputFile
  \/ DlSetOutputToStderr
  \/ DlStartSession
  \/ DlEndSession
  \/ DlLogSessionEvent
  \/ DlLogMessage

SpecLogger == InitLogger /\ [][NextLogger]_vars

-----------------------------------------------------------------------------
(* The verifier and the process-wide debug logger its controller configures *)

\* the logger calls of SetConfig and UpdateConfigFromOptions, metrics_file
\* being empty: SetEnabled(debug_logging); SetOutputToStderr(debug_logging)
ConfigureLogger(lg, debug_logging) ==
  SetOutputToStderr(SetEnabled(lg, debug_logging), debug_logging)

\* the sampling entries of a run: sampling_start after the integrity gate and
\* sampling_complete after EndSampling
SamplingLogs(lg, sampled) ==
  IF sampled
    THEN LogSessionEvent(LogSessionEvent(lg, "LogSamplingStart"), "LogSamplingComplete")
    ELSE lg

\* what SelectMove(position, limits) does to the logger: every call is under
\* "if (config_.debug_logging)"; of the entries it writes the session and
\* sampling ones are kept (per-sample, warning, info and error entries are
\* not); raised: StartSession threw
ControllerLogs(cfg, lg, sampled, raised, id) ==
  IF ~cfg.enabled \/ ~cfg.debug_logging \/ raised THEN lg
  ELSE EndSession(SamplingLogs(StartSession(lg, id), sampled))

\* the entries a call added to the history
Written(before, after) == SubSeq(after.log, Len(before.log) + 1, Len(after.log))

\* a verifier is constructed: its controller reads the options; when a Get
\* raises, before the logger is touched, the defaults are taken
VlConstruct ==
  /\ \E o \in OptionBags, throws \in BOOLEAN :
       /\ config' = UpdateConfigFromOptions(logger, o, throws).config
       /\ logger' = IF throws THEN logger ELSE ConfigureLogger(logger, o.debug_logging)
  /\ mon' = MonitorNew
  /\ call' = LoggerCall("Construct")
  /\ UNCHANGED backend

\* the configs of the logging scenarios: lambda, samples, sampling_mode and
\* enabled set, reward_mode as constructed, debug_logging set or not
LoggedConfigs == { c \in VerifierConfigs : c.reward_mode = "hybrid" }

\* the run in which every draw is a heuristic evaluation that succeeds, as
\* without a backend
HeuristicPlan(cfg, pos, fail) ==
  [ i \in 1..Len(pos) |->
      IF ReachesDraws(cfg, fail) THEN [ j \in 1..cfg.samples |-> "heur" ] ELSE <<>> ]

VlVerifySampling ==
  /\ \E c \in LoggedConfigs :
       \E in \in SelectInputs(c, SortedPositions, VerifierFailPoints) :
         \E draws \in { HeuristicPlan(c, in.pos, in.fail) } :
           \E v \in { VerifySampling(backend, mon, logger, c, in.pos, draws, in.fail) } :
             \E id \in IF c.debug_logging THEN SessionIds ELSE {""} :
                /\ config' = v.config
                /\ mon' = v.mon
                /\ logger' = ControllerLogs(c, ConfigureLogger(logger, c.debug_logging),
                                            v.sampled, v.caught, id)
                /\ call' = [ LoggerCall("VerifySampling") EXCEPT
                               !.sampled = v.sampled, !.caught = v.caught,
                               !.out = Written(logger, logger') ]
  /\ Len(logger'.log) <= MaxEvents + 1
  /\ UNCHANGED backend

InitVerifierLog ==
  /\ mon = MonitorNew
  /\ backend = "none"
  /\ \E o \in OptionBags, throws \in BOOLEAN :
       /\ config = UpdateConfigFromOptions(DebugLoggerNew, o, throws).config
       /\ logger = IF throws THEN DebugLoggerNew
                             ELSE ConfigureLogger(DebugLoggerNew, o.debug_logging)
  /\ call = CallNone

NextVerifierLog ==
  \/ DlSetEnabled
  \/ DlSetOutputFile
  \/ VlConstruct
  \/ VlVerifySampling

SpecVerifierLog == InitVerifierLog /\ [][NextVerifierLog]_vars

-----------------------------------------------------------------------------
(* Several threads logging through the one PathIntegralDebugLogger instance.
   WriteLogEntry takes no lock: its stream insertions are separate operations,
   and those on the shared std::ofstream race. *)

Threads == 1..MaxThreads

\* the insertions of "std::cerr << "PI_DEBUG: " << entry << std::endl", in order
StderrParts == <<"prefix", "entry", "endl">>

\* the insertions of "*output_file_ << entry << std::endl", in order
FileParts == <<"entry", "endl">>

\* a thread that is not inside a logger call
ThreadIdle == [ pc |-> "idle", part |-> 0 ]

\* the instance once the caller has enabled it and chosen its sinks; each sink
\* is the sequence of pieces written to it
SharedLogger(to_stderr, file_open) ==
  [ SetOutputToStderr(SetEnabled(DebugLoggerNew, TRUE), to_stderr)
      EXCEPT !.file_open = file_open, !.file_created = file_open ]
    @@ [ stderr_out |-> <<>>, file_out |-> <<>> ]

InitThreads ==
  /\ mon = MonitorNew
  /\ backend = "none"
  /\ config = ConfigDefaults
  /\ \E to_stderr \in BOOLEAN, file_open \in BOOLEAN :
       logger = SharedLogger(to_stderr, file_open)
  /\ call = [ t \in Threads |-> ThreadIdle ]

\* where WriteLogEntry goes after the stderr block
AfterStderr(lg) ==
  IF lg.file_open THEN [ pc |-> "file", part |-> 1 ] ELSE [ pc |-> "returned", part |-> 0 ]

\* where a thread that calls LogInfo goes: through the enabled_ check into
\* WriteLogEntry
EnterWriteLogEntry(lg) ==
  IF ~lg.enabled THEN [ pc |-> "returned", part |-> 0 ]
  ELSE IF lg.output_to_stderr THEN [ pc |-> "stderr", part |-> 1 ]
  ELSE AfterStderr(lg)

\* another thread is between the insertions of its own file write
FileRace(t) == \E u \in Threads \ {t} : call[u].pc = "file"

\* what an insertion into the shared ofstream may leave in the file: the piece
\* itself, or anything at all when another thread is using the stream
FileOutcomes(t, piece) ==
  IF FileRace(t) THEN {piece, [ thread |-> t, part |-> "garbled" ]} ELSE {piece}

\* a thread calls LogInfo(message)
ThLogInfo(t) ==
  /\ call[t].pc = "idle"
  /\ call' = [ call EXCEPT ![t] = EnterWriteLogEntry(logger) ]
  /\ UNCHANGED <<mon, config, backend, logger>>

\* the thread's next insertion into std::cerr
ThWriteStderr(t) ==
  /\ call[t].pc = "stderr"
  /\ logger' = [ logger EXCEPT !.stderr_out =
                    Append(@, [ thread |-> t, part |-> StderrParts[call[t].part] ]) ]
  /\ call' = [ call EXCEPT ![t] =
                  IF call[t].part < Len(StderrParts)
                    THEN [ pc |-> "stderr", part |-> call[t].part + 1 ]
                    ELSE AfterStderr(logger) ]
  /\ UNCHANGED <<mon, config, backend>>

\* the thread's next insertion into the output file; the last one with flush()
ThWriteFile(t) ==
  /\ call[t].pc = "file"
  /\ \E w \in FileOutcomes(t, [ thread |-> t, part |-> FileParts[call[t].part] ]) :
       logger' = [ logger EXCEPT !.file_out = Append(@, w) ]
  /\ call' = [ call EXCEPT ![t] =
                  IF call[t].part < Len(FileParts)
                    THEN [ pc |-> "file", part |-> call[t].part + 1 ]
                    ELSE [ pc |-> "returned", part |-> 0 ] ]
  /\ UNCHANGED <<mon, config, backend>>

NextThreads ==
  \E t \in Threads :
    \/ ThLogInfo(t)
    \/ ThWriteStderr(t)
    \/ ThWriteFile(t)

SpecLoggerThreads == InitThreads /\ [][NextThreads]_vars

\* the pieces of a sink up to position i form complete lines, each the pieces
\* of one entry of one thread, in order
WholeLines(out, parts) ==
  \A i \in 1..Len(out) :
    out[i].part = "endl"
      => /\ i >= Len(parts)
         /\ \A k \in 1..Len(parts) :
              /\ out[i - Len(parts) + k].part = parts[k]
              /\ out[i - Len(parts) + k].thread = out[i].thread
         /\ (i > Len(parts) => out[i - Len(parts)].part = "endl")

-----------------------------------------------------------------------------
(* The verifier's test suites and the verification tool around them *)

\* the suites of the verifier
SuiteNames == { "RunStandardTestSuite", "RunPerformanceTestSuite",
                "RunEdgeCaseTestSuite", "RunComprehensiveTest" }

\* the scenario around a FEN that does not parse
BadFenScenario(c) ==
  [ fen_valid |-> FALSE, config |-> c, pos |-> <<>>, fail |-> "none", draws |-> <<>> ]

\* the positions of the scenarios: every move is legal
FullPositions == { p \in SortedPositions : Len(p) = MaxLegal }

\* the scenarios a suite may hold: a FEN that parses or not, a configuration,
\* and what the run inside meets
Scenarios ==
  UNION { { BadFenScenario(c) } \cup
          { [ fen_valid |-> TRUE, config |-> c, pos |-> in.pos, fail |-> in.fail,
              draws |-> HeuristicPlan(c, in.pos, in.fail) ] :
              in \in SelectInputs(c, FullPositions, VerifierFailPoints) } :
          c \in { lc \in LoggedConfigs : lc.samples >= 1 } }

\* the scenario lists of a suite
ScenarioLists ==
  UNION { [ 1..n -> Scenarios ] : n \in 0..MaxScenarios }

\* does the scenario raise an exception while it runs
Raises(scenario) == ~scenario.fen_valid \/ scenario.fail = "session_start"

\* one of the suites, called on the verifier
SuiteRun ==
  /\ Idle
  /\ \E name \in SuiteNames, scenarios \in ScenarioLists :
       \E r \in { RunComprehensiveTest(backend, mon, logger, config, scenarios) } :
          /\ config' = r.after.config
          /\ mon' = r.after.mon
          /\ logger' = r.after.logger
          /\ call' = [ CallNone EXCEPT !.op = name, !.scenarios = scenarios,
                                       !.report = r.report, !.reported = TRUE ]
  /\ UNCHANGED backend

\* how Run leaves before it reaches the suite: ProcessAllFlags fails, help is
\* asked for, or an exception reaches its catch block
EarlyReturns == { "bad_flags", "help", "exception" }

\* main(argc, argv) when Run leaves early: no report is made
MainEarly ==
  /\ Idle
  /\ \E how \in EarlyReturns :
       call' = [ CallNone EXCEPT !.op = "main", !.exit_code = MainReturns ]
  /\ UNCHANGED <<mon, config, backend, logger>>

\* main(argc, argv): Run constructs a verifier from the options, runs the
\* suite and prints the report; main then returns
MainSuite ==
  /\ Idle
  /\ \E o \in OptionBags, throws \in BOOLEAN, scenarios \in ScenarioLists :
       \E u \in { UpdateConfigFromOptions(LoggerNew, o, throws) } :
         \E r \in { RunComprehensiveTest("none", MonitorNew, u.logger, u.config, scenarios) } :
            /\ config' = r.after.config
            /\ mon' = r.after.mon
            /\ logger' = r.after.logger
            /\ call' = [ CallNone EXCEPT !.op = "main", !.scenarios = scenarios,
                                         !.report = r.report, !.reported = TRUE,
                                         !.exit_code = MainReturns ]
  /\ backend' = "none"

NextSuite ==
  \/ SuiteRun
  \/ MainEarly
  \/ MainSuite
  \/ VerUpdateOptions
  \/ CallerContinues

SpecSuite == InitVerifier /\ [][NextSuite]_vars

-----------------------------------------------------------------------------
(* SoftmaxCalculator called directly *)

\* scores a caller may pass: 0.0, 1.0, 100.0, 200.0 and a non-finite value
SoftmaxScoreVals == {0, 1000, 100000, 200000, NaN}

\* lambdas a caller may pass: 0.0, 0.001, 1.0, 10.0 and 10.001
SoftmaxLambdaVals == {0, kMinLambda, 1000, kMaxLambda, kMaxLambda + 1}

\* a score list one longer than the size bound
LongScores == [ i \in 1..(kMaxScoreArraySize + 1) |-> 0 ]

\* the score lists a caller may pass
SoftmaxScoreLists ==
  UNION { [ 1..n -> SoftmaxScoreVals ] : n \in 0..MaxScores } \cup { LongScores }

InitSoftmax ==
  /\ mon = MonitorNew
  /\ config = ConfigDefaults
  /\ backend = "none"
  /\ logger = LoggerNew
  /\ call = CallNone

\* calculator.CalculateSoftmax(scores, lambda)
SmCalculateSoftmax ==
  /\ Idle
  /\ \E scores \in SoftmaxScoreLists, lambda \in SoftmaxLambdaVals :
       call' = [ CallNone EXCEPT !.op = "CalculateSoftmax", !.scores = scores,
                                 !.lambda = lambda,
                                 !.probs = CalculateSoftmax(scores, lambda) ]
  /\ UNCHANGED <<mon, config, backend, logger>>

NextSoftmax ==
  \/ SmCalculateSoftmax
  \/ CallerContinues

SpecSoftmax == InitSoftmax /\ [][NextSoftmax]_vars

-----------------------------------------------------------------------------
(* The score-in SelectMove overload, with scores far apart *)

\* scores the search tree may hand in: 0.0, 1.0, 2000.0 and a non-finite value
WideScoreVals == {0, 1000, 2000000, NaN}

\* score lists as long as the move list, or one short
WideScoreLists(n) ==
  [ 1..n -> WideScoreVals ] \cup (IF n > 0 THEN [ 1..(n - 1) -> WideScoreVals ] ELSE {})

\* SelectMove(legal_moves, move_scores, position) with the index drawn and the
\* failure met inside
ScoreCall(legal_moves, move_scores, pick, fail) ==
  /\ ScoreInputOk(config, legal_moves, move_scores, pick, fail)
  /\ call' = [ CallNone EXCEPT
                 !.op = "SelectMoveScores",
                 !.ret = SelectMoveScores(config, legal_moves, move_scores, pick, fail),
                 !.legal = legal_moves, !.scores = move_scores,
                 !.samples = config.samples ]
  /\ UNCHANGED <<mon, config, backend, logger>>

\* SelectMove(legal_moves, move_scores, position)
ScSelectMoveScores ==
  /\ Idle
  /\ \E legal_moves \in SortedPositions :
       \E move_scores \in WideScoreLists(Len(legal_moves)) :
         \E pick \in 1..MaxLegal, fail \in ScoreFailPoints :
           ScoreCall(legal_moves, move_scores, pick, fail)

NextScores ==
  \/ CtlSetConfig
  \/ ScSelectMoveScores
  \/ CallerContinues

SpecScores == Constructed("none") /\ [][NextScores]_vars

-----------------------------------------------------------------------------
(* EvaluateMove and the backend calls it makes *)

\* EvaluateMove(position, move) against a backend that answers cache and batch
EvEvaluateMove ==
  /\ Idle
  /\ \E mv \in Moves, cache \in CacheResponses, batch \in BatchResponses,
        heur \in HeuristicResponses :
       \E e \in { EvaluateMove(backend, mv, IF VerifyBackendAvailability(backend)
                                              THEN ResponseOf(cache, batch, heur)
                                              ELSE heur) } :
         call' = [ CallNone EXCEPT
                     !.op = "EvaluateMove", !.move = mv,
                     !.env = [ cache |-> cache, batch |-> batch, heur |-> heur ],
                     !.calls = EvaluateMoveCalls(backend, cache, batch),
                     !.raised = e.thrown, !.score = e.score, !.source = e.path ]
  /\ UNCHANGED <<mon, config, backend, logger>>

\* the controller is rebuilt around another backend
EvSetBackend ==
  /\ Idle
  /\ \E be \in Backends : backend' = be
  /\ UNCHANGED <<mon, config, logger, call>>

NextEvaluate ==
  \/ EvEvaluateMove
  \/ EvSetBackend
  \/ CallerContinues

SpecEvaluate == Init /\ [][NextEvaluate]_vars

-----------------------------------------------------------------------------
(* The debug logger's output file: SetEnabled, SetOutputFile and an event *)

\* the names SetOutputFile is called with
OutputFiles == {"", "a.log", "b.log"}

\* SetEnabled(enabled)
OfSetEnabled ==
  /\ \E b \in BOOLEAN : logger' = SetEnabled(logger, b)
  /\ call' = LoggerCall("SetEnabled")
  /\ UNCHANGED <<mon, config, backend>>

\* SetOutputFile(filename) on a file system where every open succeeds
OfSetOutputFile ==
  /\ \E f \in OutputFiles :
       /\ logger' = SetOutputFile(logger, f, TRUE)
       /\ call' = [ LoggerCall("SetOutputFile") EXCEPT !.out = <<f>> ]
  /\ UNCHANGED <<mon, config, backend>>

\* LogInfo(message)
OfLogInfo ==
  /\ logger' = LogMessage(logger, "LogInfo")
  /\ Len(logger'.log) <= MaxEvents
  /\ call' = LoggerCall("LogInfo")
  /\ UNCHANGED <<mon, config, backend>>

NextOutputFile ==
  \/ OfSetEnabled
  \/ OfSetOutputFile
  \/ OfLogInfo

SpecOutputFile == InitLogger /\ [][NextOutputFile]_vars

-----------------------------------------------------------------------------
(* The performance monitor shared by a sampling thread and a reading thread *)

\* the thread that runs the sampling session and the thread that calls
\* GetMetrics
MonThreads == {"sampler", "reader"}

\* the monitor with its metrics_mutex_: mutex is the thread that holds it
SharedMonitor == MonitorNew @@ [ mutex |-> "none" ]

\* a thread that is not inside a monitor call; stage is how far the sampling
\* thread is in its session, metrics is what the last GetMetrics returned
MonThreadIdle ==
  [ pc |-> "idle", op |-> "none", stage |-> "fresh", n |-> 0, method |-> "",
    elapsed |-> 0, metrics |-> MetricsReset ]

InitMonThreads ==
  /\ mon = SharedMonitor
  /\ backend = "none"
  /\ config = ConfigDefaults
  /\ logger = LoggerNew
  /\ call = [ t \in MonThreads |-> MonThreadIdle ]

\* a lock that is taken whoever holds the mutex
LockAcquiredAlways(mo, t) == TRUE

\* std::lock_guard<std::mutex> lock(metrics_mutex_) returns
LockAcquired(mo, t) == mo.mutex = "none"

\* the worker calls StartSampling(n): if (!enabled_) return
MtStartSampling(t) ==
  /\ t = "sampler"
  /\ call[t].pc = "idle"
  /\ call[t].stage = "fresh"
  /\ \E n \in 1..MaxCount :
       call' = [ call EXCEPT ![t].op = "StartSampling", ![t].n = n,
                             ![t].stage = "session",
                             ![t].pc = IF mon.enabled THEN "lock" ELSE "idle" ]
  /\ UNCHANGED <<mon, config, backend, logger>>

\* the worker calls RecordSample(eval_method, time_ms):
\* if (!enabled_ || !sampling_active_) return
MtRecordSample(t) ==
  /\ t = "sampler"
  /\ call[t].pc = "idle"
  /\ call[t].stage = "session"
  /\ mon.m.actual_samples < MaxCount
  /\ \E eval_method \in EvalMethods :
       call' = [ call EXCEPT ![t].op = "RecordSample", ![t].method = eval_method,
                             ![t].pc = IF mon.enabled /\ mon.active THEN "lock" ELSE "idle" ]
  /\ UNCHANGED <<mon, config, backend, logger>>

\* the worker calls EndSampling(): if (!enabled_ || !sampling_active_) return
MtEndSampling(t) ==
  /\ t = "sampler"
  /\ call[t].pc = "idle"
  /\ call[t].stage = "session"
  /\ \E elapsed \in 0..1 :
       call' = [ call EXCEPT ![t].op = "EndSampling", ![t].elapsed = elapsed,
                             ![t].stage = "done",
                             ![t].pc = IF mon.enabled /\ mon.active THEN "lock" ELSE "idle" ]
  /\ UNCHANGED <<mon, config, backend, logger>>

\* the other thread calls GetMetrics(): if (!enabled_) return SamplingMetrics{}
MtGetMetrics(t) ==
  /\ t = "reader"
  /\ call[t].pc \in {"idle", "returned"}
  /\ call' = [ call EXCEPT ![t].op = "GetMetrics",
                           ![t].metrics = MetricsReset,
                           ![t].pc = IF mon.enabled THEN "lock" ELSE "returned" ]
  /\ UNCHANGED <<mon, config, backend, logger>>

\* the lock_guard of the call the thread is in takes the mutex
MtLock(t) ==
  /\ call[t].pc = "lock"
  /\ LockAcquired(mon, t)
  /\ mon' = [ mon EXCEPT !.mutex = t ]
  /\ call' = [ call EXCEPT ![t].pc = "locked" ]
  /\ UNCHANGED <<config, backend, logger>>

\* StartSampling under the lock: Reset, requested_samples, sampling_active_
MtReset(t) ==
  /\ call[t].pc = "locked"
  /\ call[t].op = "StartSampling"
  /\ mon' = StartSampling(mon, call[t].n)
  /\ call' = [ call EXCEPT ![t].pc = "unlock" ]
  /\ UNCHANGED <<config, backend, logger>>

\* RecordSample under the lock: current_metrics_.actual_samples++
MtCountSample(t) ==
  /\ call[t].pc = "locked"
  /\ call[t].op = "RecordSample"
  /\ mon' = [ mon EXCEPT !.m.actual_samples = @ + 1 ]
  /\ call' = [ call EXCEPT ![t].pc = "bucket" ]
  /\ UNCHANGED <<config, backend, logger>>

\* RecordSample under the lock: the counter of the method's bucket
MtCountBucket(t) ==
  /\ call[t].pc = "bucket"
  /\ mon' = [ mon EXCEPT
       !.m.neural_net_evaluations = @ + (IF MethodBucket(call[t].method) = "nn" THEN 1 ELSE 0),
       !.m.cached_evaluations = @ + (IF MethodBucket(call[t].method) = "cached" THEN 1 ELSE 0),
       !.m.heuristic_evaluations = @ + (IF MethodBucket(call[t].method) = "heuristic" THEN 1 ELSE 0) ]
  /\ call' = [ call EXCEPT ![t].pc = "unlock" ]
  /\ UNCHANGED <<config, backend, logger>>

\* EndSampling under the lock: UpdateTotalTime, sampling_active_ = false
MtFinish(t) ==
  /\ call[t].pc = "locked"
  /\ call[t].op = "EndSampling"
  /\ mon' = EndSampling(mon, call[t].elapsed)
  /\ call' = [ call EXCEPT ![t].pc = "unlock" ]
  /\ UNCHANGED <<config, backend, logger>>

\* GetMetrics under the lock: the copy of current_metrics_, with the live time
\* while sampling_active_
MtCopy(t) ==
  /\ call[t].pc = "locked"
  /\ call[t].op = "GetMetrics"
  /\ \E elapsed \in 0..1 :
       call' = [ call EXCEPT ![t].metrics = GetMetrics(mon, elapsed),
                             ![t].pc = "unlock" ]
  /\ UNCHANGED <<mon, config, backend, logger>>

\* the lock_guard goes out of scope and the call returns
MtUnlock(t) ==
  /\ call[t].pc = "unlock"
  /\ mon' = [ mon EXCEPT !.mutex = "none" ]
  /\ call' = [ call EXCEPT ![t].pc = IF t = "reader" THEN "returned" ELSE "idle" ]
  /\ UNCHANGED <<config, backend, logger>>

\* the steps of one thread
MonThread(t) ==
  \/ MtStartSampling(t)
  \/ MtRecordSample(t)
  \/ MtEndSampling(t)
  \/ MtGetMetrics(t)
  \/ MtLock(t)
  \/ MtReset(t)
  \/ MtCountSample(t)
  \/ MtCountBucket(t)
  \/ MtFinish(t)
  \/ MtCopy(t)
  \/ MtUnlock(t)

NextMonThreads == \E t \in MonThreads : MonThread(t)

SpecMonitorThreads == InitMonThreads /\ [][NextMonThreads]_vars

\* each thread keeps running while it can take a step
SpecMonitorThreadsFair ==
  SpecMonitorThreads /\ \A t \in MonThreads : WF_vars(MonThread(t))

-----------------------------------------------------------------------------
(* Engine::Go and the entries it and SelectMove write to the debug logger *)

\* a StartSession in which GenerateSessionId raises: the active session was
\* ended before it
StartSessionThrows(lg) ==
  IF lg.enabled /\ lg.session_active THEN EndSession(lg) ELSE lg

\* Go before the controller is looked at: SetEnabled(debug mode option),
\* SetOutputToStderr(true); the metrics file option is empty
GoConfiguresLogger(lg, debug_mode) == SetOutputToStderr(SetEnabled(lg, debug_mode), TRUE)

\* Go's "if (debug_logger.IsEnabled())": StartSession(fen) and
\* LogInfo("Path Integral search started")
GoStartsSession(lg, id) ==
  IF lg.enabled THEN LogMessage(StartSession(lg, id), "LogInfo") ELSE lg

\* the logger after the SelectMove call inside Go
GoSelectMoveLogs(cfg, lg, fail, sampled, id) ==
  IF cfg.debug_logging /\ fail = "session_start"
    THEN StartSessionThrows(lg)
    ELSE ControllerLogs(cfg, lg, sampled, FALSE, id)

\* Go after SelectMove: LogInfo("... completed successfully") and EndSession
\* for a move, LogWarning for a null move, LogError in the catch, and the
\* EndSession before the standard search
GoEndsSession(lg, selected_move, caught) ==
  EndSession(LogMessage(lg, IF caught THEN "LogError"
                            ELSE IF selected_move # NullMove THEN "LogInfo"
                            ELSE "LogWarning"))

\* what Engine::Go does to the debug logger; r is what Go returned
GoLogs(cfg, lg, debug_mode, fail, r, id1, id2) ==
  IF ~cfg.enabled THEN GoConfiguresLogger(lg, debug_mode)
  ELSE IF debug_mode /\ fail = "go_session_start"
    THEN StartSessionThrows(GoConfiguresLogger(lg, debug_mode))
  ELSE GoEndsSession(
         GoSelectMoveLogs(cfg, GoStartsSession(GoConfiguresLogger(lg, debug_mode), id1),
                          fail, r.sampled, id2),
         r.ret, r.caught)

\* the engine is constructed: its controller reads the options
InitEngineLog == InitVerifierLog

\* Engine::NewGame: UpdateOptions(options_)
ElNewGame ==
  /\ Idle
  /\ \E o \in OptionBags, throws \in BOOLEAN :
       /\ config' = UpdateConfigFromOptions(logger, o, throws).config
       /\ logger' = IF throws THEN logger ELSE ConfigureLogger(logger, o.debug_logging)
  /\ UNCHANGED <<mon, backend, call>>

\* Engine::Go(params); the history of the logger starts anew with each
\* request, and the caller holds the entries the request wrote
ElGo ==
  /\ Idle
  /\ \E debug_mode \in BOOLEAN, black \in BOOLEAN, id1 \in SessionIds, id2 \in SessionIds :
       \E in \in GoInputs(config, debug_mode) :
         \E draws \in { HeuristicPlan(config, in.pos, in.fail) } :
           \E r \in { Go(config, backend, mon, LoggerNew, debug_mode, in.pos, draws,
                         in.fail, black) } :
             \E lg \in { GoLogs(config, [ logger EXCEPT !.log = <<>> ], debug_mode,
                                in.fail, r, id1, id2) } :
                /\ mon' = r.mon
                /\ logger' = [ lg EXCEPT !.log = <<>> ]
                /\ call' = [ CallOfSelect("Go", config, in.pos, r) EXCEPT
                               !.caught = r.caught, !.searches = r.searches,
                               !.written = lg.log ]
  /\ UNCHANGED <<config, backend>>

NextEngineLog ==
  \/ ElNewGame
  \/ ElGo
  \/ CallerContinues

SpecEngineLog == InitEngineLog /\ [][NextEngineLog]_vars

-----------------------------------------------------------------------------
(* Controllers on several threads, each running SelectMove(position, limits)
   with debug logging on; they share the one PathIntegralDebugLogger instance.
   Each logger call is taken as one step, the interleaving most favourable to
   the callers: the logger has no lock. *)

\* what GenerateSessionId returns for the call of each thread
ThreadSessionId(t) == IF t = 1 THEN "s1" ELSE IF t = 2 THEN "s2" ELSE "s3"

\* a thread that has not called SelectMove yet; written is what the logger
\* wrote during the thread's calls
ControllerIdle == [ pc |-> "idle", id |-> "", written |-> <<>> ]

\* every controller was given a config with debug_logging set
InitControllers ==
  /\ mon = MonitorNew
  /\ backend = "none"
  /\ config = [ ConfigDefaults EXCEPT !.enabled = TRUE, !.debug_logging = TRUE ]
  /\ logger = ConfigureLogger(DebugLoggerNew, TRUE)
  /\ call = [ t \in Threads |-> ControllerIdle ]

\* the thread's position after a logger call, and what the call wrote
AfterLoggerCall(t, pc, lg) ==
  [ call EXCEPT ![t].pc = pc, ![t].written = @ \o Written(logger, lg) ]

\* SelectMove: StartSession(PositionToFen(position))
CtStartSession(t) ==
  /\ call[t].pc = "idle"
  /\ logger' = StartSession(logger, ThreadSessionId(t))
  /\ call' = [ AfterLoggerCall(t, "started", logger') EXCEPT ![t].id = ThreadSessionId(t) ]
  /\ UNCHANGED <<mon, config, backend>>

\* PerformRootNodeSampling: LogSamplingStart
CtLogSamplingStart(t) ==
  /\ call[t].pc = "started"
  /\ logger' = LogSessionEvent(logger, "LogSamplingStart")
  /\ call' = AfterLoggerCall(t, "sampling", logger')
  /\ UNCHANGED <<mon, config, backend>>

\* PerformRootNodeSampling: LogSamplingComplete
CtLogSamplingComplete(t) ==
  /\ call[t].pc = "sampling"
  /\ logger' = LogSessionEvent(logger, "LogSamplingComplete")
  /\ call' = AfterLoggerCall(t, "sampled", logger')
  /\ UNCHANGED <<mon, config, backend>>

\* SelectMove: EndSession(), after sampling or without it (no legal moves, the
\* integrity gate)
CtEndSession(t) ==
  /\ call[t].pc \in {"started", "sampled"}
  /\ logger' = EndSession(logger)
  /\ call' = AfterLoggerCall(t, "returned", logger')
  /\ UNCHANGED <<mon, config, backend>>

NextControllers ==
  \E t \in Threads :
    \/ CtStartSession(t)
    \/ CtLogSamplingStart(t)
    \/ CtLogSamplingComplete(t)
    \/ CtEndSession(t)

SpecControllers == InitControllers /\ [][NextControllers]_vars

-----------------------------------------------------------------------------
(* A caller that starts and ends sessions and switches the debug logger on and
   off; the caller keeps the ids of the sessions it has called EndSession for *)

\* the sessions EndSession has been invoked for, after a call that invokes it
\* while lg is the logger
EndedWith(lg) ==
  IF lg.session_active THEN call.ended \cup {lg.current_session_id} ELSE call.ended

\* SetEnabled(enabled)
SeSetEnabled ==
  /\ \E b \in BOOLEAN : logger' = SetEnabled(logger, b)
  /\ call' = [ LoggerCall("SetEnabled") EXCEPT !.ended = call.ended ]
  /\ UNCHANGED <<mon, config, backend>>

\* StartSession(position_fen): GenerateSessionId gives an id no session had;
\* an enabled logger calls EndSession() for the session that is active
SeStartSession ==
  /\ \E id \in SessionIds \ (call.ended \cup {logger.current_session_id}) :
       logger' = StartSession(logger, id)
  /\ Len(logger'.log) <= MaxEvents
  /\ call' = [ LoggerCall("StartSession") EXCEPT
                 !.ended = IF logger.enabled THEN EndedWith(logger) ELSE call.ended ]
  /\ UNCHANGED <<mon, config, backend>>

\* EndSession()
SeEndSession ==
  /\ logger' = EndSession(logger)
  /\ Len(logger'.log) <= MaxEvents
  /\ call' = [ LoggerCall("EndSession") EXCEPT !.ended = EndedWith(logger) ]
  /\ UNCHANGED <<mon, config, backend>>

\* LogWarning, LogError, LogInfo
SeLogMessage ==
  /\ \E ep \in DOMAIN MessageEvents :
       /\ logger' = LogMessage(logger, ep)
       /\ call' = [ LoggerCall(ep) EXCEPT !.ended = call.ended ]
  /\ Len(logger'.log) <= MaxEvents
  /\ UNCHANGED <<mon, config, backend>>

NextSessionEnd ==
  \/ SeSetEnabled
  \/ SeStartSession
  \/ SeEndSession
  \/ SeLogMessage

SpecSessionEnd == InitLogger /\ [][NextSessionEnd]_vars

-----------------------------------------------------------------------------
(* The claims *)

\* the calls that are one of the two SelectMove overloads
SelectCalls == {"SelectMove", "SelectMoveScores"}

\* draws of the last run that were dropped: they threw or were not finite
Dropped == SumSeq(call.attempted) - SumSeq(call.valid)

\* best-move messages among those sent
BestMoves(out) == Cardinality({ i \in 1..Len(out) : out[i].type = "bestmove" })

\* C1: no exception leaves either SelectMove overload; whatever fails, the
\* call returns, and returns the null move.
C1_NoExceptionLeavesSelectMove ==
  call.op \in SelectCalls => ~call.raised

\* C2: a non-null move returned by SelectMove(position, limits) is one of the
\* position's legal moves.
C2_SelectedMoveIsLegal ==
  (call.op = "SelectMove" /\ call.ret # NullMove) => call.ret \in SeqToSet(call.legal)

\* C2 happens: both of two legal moves were sampled and the second was selected
C2_SecondMoveSelected ==
  /\ call.op = "SelectMove"
  /\ Len(call.legal) = 2
  /\ Len(call.results) = 2
  /\ call.ret = call.legal[2]

\* C3: with the controller disabled, either SelectMove overload returns the
\* null move and leaves the logger and the monitor as they were: no logger
\* session, no monitor sampling session, no evaluation.
C3_DisabledSelectMoveIsInert ==
  [][ (~config.enabled /\ call'.op \in SelectCalls)
        => /\ call'.ret = NullMove
           /\ ~call'.raised
           /\ call'.sessions = 0
           /\ ~call'.sampled
           /\ call'.evals = 0
           /\ mon' = mon
           /\ logger' = logger ]_vars

\* C3 happens: SelectMove(position, limits) was called on a disabled controller
\* whose config would otherwise log and sample two legal moves
C3_DisabledCall ==
  /\ call.op = "SelectMove"
  /\ ~config.enabled
  /\ config.debug_logging
  /\ logger.enabled
  /\ config.samples > 0
  /\ Len(call.legal) = 2

\* C4: when the controller returns a non-null move to Go, the adapter sends
\* exactly a thinking-info message and then a best-move message, the info
\* first, both carrying the selected move.
C4_InfoThenBestMove ==
  (call.op = "Go" /\ call.ret # NullMove)
    => /\ Len(call.out) = 2
       /\ call.out[1].type = "info"
       /\ call.out[1].pv = <<call.ret>>
       /\ call.out[1].nodes = mon.m.actual_samples
       /\ call.out[1].time = mon.m.total_time_ms
       /\ call.out[2].type = "bestmove"
       /\ call.out[2].move = call.ret

\* C4 happens: Go published the second of two legal moves for Black
C4_Published ==
  /\ call.op = "Go"
  /\ Len(call.legal) = 2
  /\ call.ret = call.legal[2]
  /\ Len(call.out) = 2
  /\ call.out[2].player = 0 - 1

\* C5: a Go that returns normally either sends one best-move message (for a
\* non-null move of the controller) or starts the default search, never both
\* and never neither.
C5_BestMoveOrSearch ==
  (call.op = "Go" /\ ~call.raised)
    => /\ BestMoves(call.out) + call.searches = 1
       /\ BestMoves(call.out) = 1 <=> call.ret # NullMove

\* C5 happens: SelectMove raised inside Go's try block and the search started
C5_CaughtAndSearched ==
  /\ call.op = "Go"
  /\ call.caught
  /\ call.searches = 1
  /\ call.out = <<>>

\* C6: in every state of a monitor, actual_samples is the sum of
\* neural_net_evaluations, cached_evaluations and heuristic_evaluations.
C6_SamplesEqualBuckets ==
  mon.m.actual_samples = Recorded(mon)

\* C7: after a sampling run with samples = k over m legal moves the monitor
\* holds requested_samples = k * m and actual_samples = k * m less the dropped
\* draws.
C7_RequestedAndActual ==
  (call.op = "SelectMove" /\ call.sampled)
    => /\ mon.m.requested_samples = call.samples * Len(call.legal)
       /\ SumSeq(call.attempted) = call.samples * Len(call.legal)
       /\ mon.m.actual_samples = call.samples * Len(call.legal) - Dropped

\* C7 happens: a run of two samples over two moves dropped one draw
C7_OneDrawDropped ==
  /\ call.op = "SelectMove"
  /\ call.sampled
  /\ call.samples = 2
  /\ Len(call.legal) = 2
  /\ Dropped = 1
  /\ mon.m.actual_samples = 3

\* C8: when VerifySampling's sampling completes and every draw was valid,
\* samples_match_requested is true: actual and requested samples of the result
\* differ by at most max(1, 5% of requested).
C8_SamplesMatchRequested ==
  (call.op = "VerifySampling" /\ call.result.sampling_completed
     /\ call.sampled /\ Dropped = 0)
    => /\ call.result.samples_match_requested
       /\ Abs(call.result.actual_samples - call.result.requested_samples)
            <= Max2(1, (call.result.requested_samples * 5) \div 100)

\* C9: every sample of a run is counted in the monitor bucket of the path that
\* produced it, and a completed run without a backend has neural_net_used true.
C9_BucketsFollowPaths ==
  (call.op = "VerifySampling" /\ call.sampled)
    => /\ mon.m.cached_evaluations = call.by_path.cached
       /\ mon.m.neural_net_evaluations = call.by_path.neural_network
       /\ mon.m.heuristic_evaluations = call.by_path.heuristic
       /\ (backend = "none" /\ call.result.sampling_completed) => call.result.neural_net_used

\* C10: VerifySampling with samples = 0 reports sampling_completed = false and
\* at least one error, whatever ran on the verifier before.
C10_ZeroSamplesIsAnError ==
  (call.op = "VerifySampling" /\ call.samples = 0)
    => /\ ~call.result.sampling_completed
       /\ call.result.errors # <<>>

\* C11: the integrity gate comes before the monitor session and before any
\* evaluation: a run that sampled or evaluated passed the gate, and when the
\* gate fails (samples <= 0 or no legal moves) SelectMove returns the null
\* move, issues no evaluation and leaves the monitor as it was.
C11_GateBeforeSampling ==
  [][ call'.op = "SelectMove"
        => /\ (call'.sampled \/ call'.evals > 0)
                => ValidateSampleCountIntegrity(config.samples, Len(call'.legal))
           /\ ~ValidateSampleCountIntegrity(config.samples, Len(call'.legal))
                => /\ call'.ret = NullMove
                   /\ call'.evals = 0
                   /\ ~call'.sampled
                   /\ mon' = mon ]_vars

\* C11 happens: an enabled controller with a negative sample count was asked
\* for a move among two, after an earlier run had left metrics in the monitor
C11_NegativeSamplesRun ==
  /\ call.op = "SelectMove"
  /\ config.enabled
  /\ config.samples < 0
  /\ Len(call.legal) = 2
  /\ call.ret = NullMove
  /\ mon.m.actual_samples > 0

\* C12: after UpdateOptions, or SetConfig with a valid config, IsEnabled() is
\* true exactly when lambda > 0 and samples > 0.
C12_EnabledIsDerived ==
  (call.op \in {"SetConfig", "UpdateOptions"} /\ ConfigIsValid(config))
    => (IsEnabled(config) <=> (config.lambda > 0 /\ config.samples > 0))

\* C13: a config that is not valid (lambda outside [0.001, 10] or samples
\* outside [1, 100000]), once given to the controller, leaves it disabled, and
\* SelectMove then returns the null move.
C13_InvalidConfigDisables ==
  /\ (call.op \in {"SetConfig", "UpdateOptions"} /\ ~ConfigIsValid(config))
       => ~IsEnabled(config)
  /\ (call.op = "SelectMove" /\ ~ConfigIsValid(config))
       => call.ret = NullMove

\* C14: GetConfig() right after SetConfig(c), c valid, returns c.
C14_SetConfigGetConfig ==
  (call.op = "GetConfigAfterSet" /\ ConfigIsValid(call.arg)) => call.got = call.arg

\* C14 happens: a valid config with enabled off was set and read back
C14_ValidDisabledConfigReadBack ==
  /\ call.op = "GetConfigAfterSet"
  /\ ConfigIsValid(call.arg)
  /\ ~call.arg.enabled
  /\ call.arg.debug_logging
  /\ call.arg.sampling_mode = "quantum_limit"

\* every session_end of a sequence of events has a session_start with the same
\* session_id before it, and no session_end of that id in between
EndsFollowStarts(out) ==
  \A j \in 1..Len(out) :
    out[j].type = "session_end"
      => \E i \in 1..(j - 1) :
           /\ out[i].type = "session_start"
           /\ out[i].sid = out[j].sid
           /\ \A k \in (i + 1)..(j - 1) :
                ~(out[k].type = "session_end" /\ out[k].sid = out[j].sid)

\* C15: in the sequence of events the logger emitted, every session_end is
\* preceded by a session_start with the same session_id, with no other
\* session_end for that id in between.
C15_SessionEndFollowsStart == EndsFollowStarts(Emitted(logger.log))

\* C16: at most one session is active at any time: the history has one open
\* session when a session is active and none otherwise; and StartSession
\* called while a session is active writes session_end for that session and
\* then session_start for the new one.
C16_OneSessionAtATime ==
  /\ [](OpenSessions(logger.log) = IF logger.session_active THEN 1 ELSE 0)
  /\ [][ (call'.op = "StartSession" /\ logger.enabled /\ logger.session_active)
           => /\ Len(logger'.log) = Len(logger.log) + 2
              /\ SubSeq(logger'.log, 1, Len(logger.log)) = logger.log
              /\ logger'.log[Len(logger.log) + 1].type = "session_end"
              /\ logger'.log[Len(logger.log) + 1].sid = logger.current_session_id
              /\ logger'.log[Len(logger.log) + 2].type = "session_start"
              /\ logger'.log[Len(logger.log) + 2].sid = logger'.current_session_id
              /\ logger'.session_active ]_vars

\* C16 happens: a session was started on stderr while another one, with a
\* different id, was active
C16_SessionReplaced ==
  /\ call.op = "StartSession"
  /\ Len(logger.log) = 3
  /\ logger.log[1].type = "session_start"
  /\ logger.log[2].type = "session_end"
  /\ logger.log[3].type = "session_start"
  /\ logger.log[3].sid # logger.log[1].sid
  /\ logger.log[2].stderr
  /\ logger.log[3].stderr

\* C17: whenever the logger is enabled, a call to an event entry point writes
\* one event, and its data carries the active session's id, or "none" when
\* no session is active.
C17_EnabledEntryPointEmits ==
  [][ (call'.op \in EventEntryPoints /\ logger.enabled)
        => /\ Len(logger'.log) = Len(logger.log) + 1
           /\ logger'.log[Len(logger'.log)].sid = CurrentSessionId(logger) ]_vars

\* C19: while the logger is disabled no entry point writes an entry, opens or
\* creates the output file, or changes the session state.
C19_DisabledLoggerIsInert ==
  [][ ~logger.enabled
        => /\ logger'.log = logger.log
           /\ logger'.file_open = logger.file_open
           /\ logger'.file_created = logger.file_created
           /\ logger'.session_active = logger.session_active
           /\ logger'.current_session_id = logger.current_session_id ]_vars

\* C19 happens: SetOutputFile was called with a file name on a logger that was
\* disabled during a session, and no file exists
C19_DisabledSetOutputFile ==
  /\ call.op = "SetOutputFile"
  /\ call.out = <<"debug.log">>
  /\ ~logger.enabled
  /\ logger.session_active
  /\ ~logger.file_created

\* C18: when several threads log at the same time, every line of each sink is
\* one complete entry of one thread: pieces of different entries are never
\* mixed within a line.
C18_EveryLineIsOneEntry ==
  /\ WholeLines(logger.stderr_out, StderrParts)
  /\ WholeLines(logger.file_out, FileParts)

\* C20: a VerifySampling run made while the caller's logger is enabled and has
\* its output file open, with a config that sets lambda, samples, sampling
\* mode and enabled only (debug_logging left false), writes the run's
\* sampling_start and sampling_complete entries to the file.
C20_RunEntriesReachTheFile ==
  [][ ( /\ call'.op = "VerifySampling"
        /\ logger.enabled
        /\ logger.file_open
        /\ config'.enabled
        /\ ~config'.debug_logging
        /\ call'.sampled )
        => \E i, j \in 1..Len(call'.out) :
             /\ i < j
             /\ call'.out[i].type = "sampling_start"
             /\ call'.out[i].file
             /\ call'.out[j].type = "sampling_complete"
             /\ call'.out[j].file ]_vars

\* the monitor calls that record or end a session
RecordingCalls ==
  { "RecordSample", "RecordNeuralNetEvaluation", "RecordCachedEvaluation",
    "RecordHeuristicEvaluation", "EndSampling" }

\* C21: RecordSample, the direct Record* helpers and EndSampling called while
\* the monitor is idle, before any StartSampling or after EndSampling, leave
\* every metric unchanged and the monitor idle.
C21_IdleMonitorIsReadOnly ==
  [][ (call'.op \in RecordingCalls /\ ~mon.active)
        => (mon'.m = mon.m /\ ~mon'.active) ]_vars

\* C21 happens: RecordSample was called on an enabled monitor after a session
\* that had recorded samples was ended
C21_RecordAfterEnd ==
  /\ call.op = "RecordSample"
  /\ ~call.was_active
  /\ mon.enabled
  /\ mon.m.actual_samples > 0
  /\ mon.m.total_time_ms > 0

\* C22 as stated: StartSampling(n) always leaves the monitor active with
\* requested_samples = n and every counter and timer at zero.
C22_StartSamplingAlwaysResets ==
  [][ call'.op = "StartSampling"
        => /\ mon'.active
           /\ mon'.m = [ MetricsReset EXCEPT !.requested_samples = call'.samples ] ]_vars

\* C22 amended: StartSampling(n) on an enabled monitor leaves it active with
\* requested_samples = n and every counter and timer at zero, also when a
\* session is already active; on a disabled monitor it changes nothing.
C22_StartSamplingResetsWhenEnabled ==
  [][ call'.op = "StartSampling"
        => IF mon.enabled
             THEN /\ mon'.active
                  /\ mon'.m = [ MetricsReset EXCEPT !.requested_samples = call'.samples ]
             ELSE mon' = mon ]_vars

\* C22 happens: StartSampling was called during a session and the monitor
\* holds the new request and no count
C22_RestartedSession ==
  /\ call.op = "StartSampling"
  /\ call.was_active
  /\ call.samples = MaxCount
  /\ mon.enabled
  /\ mon.active
  /\ mon.m.requested_samples = MaxCount
  /\ mon.m.actual_samples = 0


\* C23: the verification tool exits with code 0 exactly when the report of the
\* run is an overall success, and with a non-zero code otherwise
C23_ExitCodeTellsSuccess ==
  call.op = "main" =>
    (call.exit_code = 0 <=> (call.reported /\ IsOverallSuccess(call.report)))

\* C24: a suite puts exactly one result in its report for each scenario, in
\* order; a scenario that raised has errors in its result and counts among the
\* failed tests; the scenarios after it are still run
C24_OneResultPerScenario ==
  call.reported =>
    /\ Len(call.report.individual_results) = Len(call.scenarios)
    /\ call.report.total_tests = Len(call.scenarios)
    /\ call.report.passed_tests + call.report.failed_tests = Len(call.scenarios)
    /\ \A i \in 1..Len(call.scenarios) :
         Raises(call.scenarios[i]) =>
           /\ call.report.individual_results[i].errors # <<>>
           /\ ~IsValid(call.report.individual_results[i])
    /\ call.report.failed_tests >=
         Cardinality({ i \in 1..Len(call.scenarios) : Raises(call.scenarios[i]) })

\* a suite whose first scenario has a FEN that does not parse and whose second
\* scenario ran its samples
C24_RaisedThenRan ==
  /\ call.op \in SuiteNames
  /\ Len(call.scenarios) = MaxScenarios
  /\ ~call.scenarios[1].fen_valid
  /\ call.scenarios[MaxScenarios].fen_valid
  /\ call.report.individual_results[1].errors # <<>>
  /\ call.report.individual_results[MaxScenarios].actual_samples > 0
  /\ call.report.failed_tests >= 1

\* does CalculateSoftmax reject these inputs
SoftmaxRejects(scores, lambda) ==
  \/ scores = <<>>
  \/ Len(scores) > kMaxScoreArraySize
  \/ \E i \in 1..Len(scores) : ~IsFinite(scores[i])
  \/ lambda < kMinLambda
  \/ lambda > kMaxLambda

\* the list of n probabilities 1/n
EachOneOverN(n) == [ i \in 1..n |-> Scale \div n ]

\* C25: for an empty score list, a list with a non-finite value, a list longer
\* than the size bound or a lambda outside [0.001, 10], softmax returns the
\* uniform distribution of the input's length: 1/n each, empty for n = 0
C25_RejectedInputGivesUniform ==
  (call.op = "CalculateSoftmax" /\ SoftmaxRejects(call.scores, call.lambda)) =>
    call.probs = EachOneOverN(Len(call.scores))

\* scores that are fine and differ, with a lambda above the range
C25_LambdaTooLarge ==
  /\ call.op = "CalculateSoftmax"
  /\ call.scores = <<0, 1000, 100000>>
  /\ call.lambda > kMaxLambda
  /\ call.probs = <<3333, 3333, 3333>>

\* are the values of the list strictly ascending
StrictlyAscending(s) == \A i \in 1..(Len(s) - 1) : s[i] < s[i + 1]

\* C27: for strictly ascending finite scores and a lambda in [0.001, 10] the
\* probabilities softmax returns are strictly ascending
C27_AscendingScoresAscendingProbabilities ==
  ( /\ call.op = "CalculateSoftmax"
    /\ ~SoftmaxRejects(call.scores, call.lambda)
    /\ StrictlyAscending(call.scores) )
  => StrictlyAscending(call.probs)

\* the softmax probabilities of a result set under lambda
ProbabilitiesOf(results, lambda) ==
  CalculateSoftmax([ i \in 1..Len(results) |-> results[i].score ], lambda)

\* the first index at which the list takes its largest value
FirstLargest(probs) ==
  CHOOSE i \in 1..Len(probs) :
    /\ \A j \in 1..Len(probs) : probs[j] <= probs[i]
    /\ \A j \in 1..(i - 1) : probs[j] < probs[i]

\* C28: in both sampling modes the move SelectMove(position, limits) returns is
\* the move of the result set with the highest softmax probability, and it is
\* fixed by the averaged scores: the first such move in the result set
C28_ReturnsMostProbableMove ==
  (call.op = "SelectMove" /\ call.ret # NullMove) =>
    /\ call.results # <<>>
    /\ call.ret = call.results[FirstLargest(ProbabilitiesOf(call.results, config.lambda))].move

\* a quantum-limit run over two moves returned the second, the more probable
C28_SecondMoveMoreProbable ==
  /\ call.op = "SelectMove"
  /\ config.sampling_mode = "quantum_limit"
  /\ Len(call.results) = 2
  /\ call.ret = call.results[2].move
  /\ ProbabilitiesOf(call.results, config.lambda)[2] > ProbabilitiesOf(call.results, config.lambda)[1]

\* the score-in SelectMove, called with these moves and scores, returns move
ReturnsFromScores(legal_moves, move_scores, move) ==
  \E pick \in 1..MaxLegal, fail \in ScoreFailPoints :
    /\ ScoreCall(legal_moves, move_scores, pick, fail)
    /\ call'.ret = move

\* the position lists with a move in them
MoveLists == SortedPositions \ {<<>>}

\* C29 as stated: the enabled score-in SelectMove, given as many scores as
\* moves, draws by weight: a move can be returned exactly when its softmax
\* probability is positive
C29_WeightedDrawInEveryMode ==
  (Idle /\ config.enabled) =>
    \A legal_moves \in MoveLists :
      \A move_scores \in [ 1..Len(legal_moves) -> WideScoreVals ] :
        \A i \in 1..Len(legal_moves) :
          ENABLED ReturnsFromScores(legal_moves, move_scores, legal_moves[i])
            <=> CalculateSoftmax(move_scores, config.lambda)[i] > 0

\* C29, amended: in competitive mode a move can be returned exactly when its
\* softmax probability is positive; in quantum-limit mode exactly the first
\* most probable move can be returned
C29_WeightedDrawInCompetitiveMode ==
  (Idle /\ config.enabled) =>
    \A legal_moves \in MoveLists :
      \A move_scores \in [ 1..Len(legal_moves) -> WideScoreVals ] :
        \A i \in 1..Len(legal_moves) :
          ENABLED ReturnsFromScores(legal_moves, move_scores, legal_moves[i])
            <=> IF config.sampling_mode = "competitive"
                  THEN CalculateSoftmax(move_scores, config.lambda)[i] > 0
                  ELSE i = FirstLargest(CalculateSoftmax(move_scores, config.lambda))

\* a competitive draw returned the less probable of two moves
C29_LessProbableMoveDrawn ==
  /\ call.op = "SelectMoveScores"
  /\ config.sampling_mode = "competitive"
  /\ call.scores = <<0, 1000>>
  /\ Len(call.legal) = 2
  /\ call.ret = call.legal[1]
  /\ CalculateSoftmax(call.scores, config.lambda)[1] > 0
  /\ CalculateSoftmax(call.scores, config.lambda)[1] < CalculateSoftmax(call.scores, config.lambda)[2]

\* C30: in a sampling run that passed the integrity gate, every legal move has
\* attempted_samples equal to the configured samples and valid_samples no
\* larger; a draw that threw or was not finite is in attempted_samples and not
\* in valid_samples
C30_AttemptedAndValidPerMove ==
  (call.op = "SelectMove" /\ call.sampled) =>
    /\ Len(call.attempted) = Len(call.legal)
    /\ Len(call.valid) = Len(call.legal)
    /\ \A i \in 1..Len(call.legal) :
         /\ call.attempted[i] = call.samples
         /\ call.valid[i] <= call.attempted[i]
         /\ call.valid[i] = call.attempted[i] - call.bad[i]

\* a run over two moves in which one draw of the first move was dropped and
\* every draw of the second was not finite or threw
C30_DrawsDropped ==
  /\ call.op = "SelectMove"
  /\ call.sampled
  /\ Len(call.legal) = 2
  /\ call.samples = MaxSamples
  /\ call.bad = <<1, MaxSamples>>
  /\ call.attempted = <<MaxSamples, MaxSamples>>
  /\ call.valid = <<MaxSamples - 1, 0>>

\* the moves of a result set
ResultMoves(results) == { results[i].move : i \in 1..Len(results) }

\* C31: a move with no valid draw is not in the result set, and SelectMove
\* returns the null move when no move has a valid draw
C31_MovesWithoutValidDrawsDropped ==
  (call.op = "SelectMove" /\ call.sampled) =>
    /\ \A i \in 1..Len(call.legal) :
         call.valid[i] = 0 => call.legal[i] \notin ResultMoves(call.results)
    /\ (\A i \in 1..Len(call.legal) : call.valid[i] = 0)
         => (call.results = <<>> /\ call.ret = NullMove)

\* a run over two moves in which only the first move lost all its draws, and
\* the second move was returned
C31_OneMoveDropped ==
  /\ call.op = "SelectMove"
  /\ call.sampled
  /\ Len(call.legal) = 2
  /\ call.valid[1] = 0
  /\ call.valid[2] > 0
  /\ ResultMoves(call.results) = { call.legal[2] }
  /\ call.ret = call.legal[2]

\* a run in which every move lost all its draws
C31_EveryMoveDropped ==
  /\ call.op = "SelectMove"
  /\ call.sampled
  /\ Len(call.legal) = 2
  /\ call.valid = <<0, 0>>
  /\ call.ret = NullMove

\* the place of a source in EvaluateMove's order
SourceRank(c) ==
  CASE c = "GetAttributes" -> 1 [] c = "GetCachedEvaluation" -> 2
    [] c = "EvaluateBatch" -> 3 [] c = "heuristic" -> 4

\* was this source consulted by the last EvaluateMove
Consulted(c) == \E i \in 1..Len(call.calls) : call.calls[i] = c

\* C32: EvaluateMove consults availability, cache, batch and heuristic in that
\* order; the cache and the batch are asked only after the availability check
\* passed, the batch only after a cache miss, the heuristic only when the
\* backend was unavailable, the cache raised, or the cache missed and the batch
\* raised or returned nothing; the value returned is the last source's
C32_SourcesInOrder ==
  call.op = "EvaluateMove" =>
    /\ \A i \in 1..(Len(call.calls) - 1) :
         SourceRank(call.calls[i]) < SourceRank(call.calls[i + 1])
    /\ (Consulted("GetCachedEvaluation") \/ Consulted("EvaluateBatch"))
         => backend = "ok"
    /\ Consulted("EvaluateBatch")
         => (Consulted("GetCachedEvaluation") /\ call.env.cache = "miss")
    /\ Consulted("heuristic") =>
         \/ backend # "ok"
         \/ call.env.cache = "throws"
         \/ (call.env.cache = "miss" /\ call.env.batch \in {"empty", "throws"})
    /\ call.calls # <<>>
    /\ call.source = CASE call.calls[Len(call.calls)] = "GetCachedEvaluation" -> "cached"
                       [] call.calls[Len(call.calls)] = "EvaluateBatch" -> "neural_network"
                       [] OTHER -> "heuristic"

\* a backend whose attribute query raises: the heuristic was used and neither
\* the cache nor the batch was asked, though the cache had the value
C32_BrokenBackendNotAsked ==
  /\ call.op = "EvaluateMove"
  /\ backend = "broken"
  /\ call.env.cache = "hit"
  /\ call.calls = <<"GetAttributes", "heuristic">>
  /\ call.source = "heuristic"

\* C33 as stated: a SelectMove(position, limits) call has issued at most
\* samples * |L| move evaluations when it returns, whatever the modes
C33_AtMostSamplesTimesMoves ==
  call.op = "SelectMove" => call.evals <= call.samples * Len(call.legal)

\* C33, amended: a SelectMove(position, limits) call makes at most
\* samples * |L| draws; a draw issues one move evaluation, and two, the policy
\* and the value, in quantum-limit mode with the hybrid reward, so that the
\* evaluations number at most samples * |L|, there at most 2 * samples * |L|
C33_AtMostTwoEvaluationsPerDraw ==
  call.op = "SelectMove" =>
    /\ SumSeq(call.attempted) <= call.samples * Len(call.legal)
    /\ call.evals <= (IF config.sampling_mode = "quantum_limit" /\ config.reward_mode = "hybrid"
                        THEN 2 ELSE 1) * call.samples * Len(call.legal)

\* a quantum-limit run with the hybrid reward over every move, with more
\* evaluations than samples * |L|
C33_HybridRunEvaluatesTwice ==
  /\ call.op = "SelectMove"
  /\ config.sampling_mode = "quantum_limit"
  /\ config.reward_mode = "hybrid"
  /\ Len(call.legal) = MaxLegal
  /\ call.samples >= 1
  /\ SumSeq(call.attempted) = call.samples * MaxLegal
  /\ call.evals = 2 * call.samples * MaxLegal

\* the file the event written by this step went to, "" when it went to no file
WrittenTo == IF logger'.log[Len(logger'.log)].file THEN logger.file_name ELSE ""

\* C34: whatever SetEnabled and SetOutputFile calls came before, an event
\* emitted while the logger is enabled is written to the file named by the
\* most recent SetOutputFile call, and to no file when that name is empty
C34_EventsGoToNamedFile ==
  [][ Len(logger'.log) > Len(logger.log) => WrittenTo = logger.output_filename ]_vars

\* an event was written to no file although a file is named: the name was set
\* while the logger was disabled
C34_NamedFileNeverOpened ==
  /\ call.op = "LogInfo"
  /\ logger.log # <<>>
  /\ ~logger.log[Len(logger.log)].file
  /\ logger.output_filename # ""

Consistent(m) ==
  m.actual_samples <= m.neural_net_evaluations + m.cached_evaluations + m.heuristic_evaluations

\* what of the monitor a caller can observe: the flags and the metrics
MonitorState(mo) == <<mo.enabled, mo.active, mo.m>>

\* C36: a GetMetrics call made by another thread during a sampling session
\* returns (it never waits for the mutex for ever), leaves the monitor's flags
\* and metrics as they are, and returns a snapshot in which no sample is
\* counted without its bucket
C36_GetMetricsSnapshotIsConsistent ==
  /\ [](Consistent(call["reader"].metrics))
  /\ [][ MonThread("reader") => MonitorState(mon') = MonitorState(mon) ]_vars
  /\ (call["reader"].pc = "lock") ~> (call["reader"].pc = "returned")

\* the reader holds a snapshot of an active session with a sample in it while
\* the sampling thread waits for the mutex to record the next sample
C36_SnapshotWhileSamplerWaits ==
  /\ call["reader"].pc = "unlock"
  /\ mon.mutex = "reader"
  /\ mon.active
  /\ call["reader"].metrics.actual_samples >= 1
  /\ call["sampler"].pc = "lock"
  /\ call["sampler"].op = "RecordSample"

\* the entries of a history that have this type
EntriesOf(log, type) == { i \in 1..Len(log) : log[i].type = type }

\* C37: a move request that the adapter handles with debug logging on writes
\* exactly one session_start and one session_end, and its completion event
\* (the info or warning entry written after SelectMove) carries the id of
\* the session the adapter started
C37_OneSessionPerRequest ==
  (call.op = "Go" /\ config.enabled /\ logger.enabled /\ ~call.raised /\ ~call.caught) =>
    /\ Cardinality(EntriesOf(call.written, "session_start")) = 1
    /\ Cardinality(EntriesOf(call.written, "session_end")) = 1
    /\ \A i \in EntriesOf(call.written, "info") \cup EntriesOf(call.written, "warning") :
         call.written[i].sid = call.written[1].sid

\* a request that selected a move with debug logging on in the adapter and in
\* the controller: two sessions, and the completion event outside both
C37_CompletionOutsideSession ==
  /\ call.op = "Go"
  /\ call.ret # NullMove
  /\ Cardinality(EntriesOf(call.written, "session_start")) = 2
  /\ call.written[Len(call.written)].type = "info"
  /\ call.written[Len(call.written)].sid = "none"

\* the thread is between the StartSession and the EndSession of its call
InOwnSession(t) == call[t].pc \in {"started", "sampling", "sampled"}

\* C38: with controllers running SelectMove on several threads with debug
\* logging on, every entry written during a call carries the session id that
\* call started, and until the call ends its session the logger's session is
\* the one the call started
C38_EachCallKeepsItsSession ==
  \A t \in Threads :
    /\ \A i \in 1..Len(call[t].written) : call[t].written[i].sid = call[t].id
    /\ InOwnSession(t) =>
         logger.session_active /\ logger.current_session_id = call[t].id

\* a thread's sampling_start entry carries the id of the session another
\* thread started
C38_EntryUnderOtherSession ==
  \E t \in Threads :
    \E i \in 1..Len(call[t].written) :
      /\ call[t].written[i].type = "sampling_start"
      /\ call[t].written[i].sid # call[t].id

\* C39: once EndSession has been invoked for a session, no entry written
\* afterwards carries that session's id, also when the logger was disabled
\* and enabled again around the call
C39_NoEntryAfterEndSession ==
  [][ \A i \in (Len(logger.log) + 1)..Len(logger'.log) :
        logger'.log[i].sid \notin call.ended ]_vars

\* EndSession was invoked for the session that is still the logger's active
\* session, and the logger is enabled
C39_EndedSessionStillActive ==
  /\ logger.enabled
  /\ logger.session_active
  /\ logger.current_session_id \in call.ended

\* the counters of a result or of a metrics record are all zero
NoSamplesCounted(m) ==
  /\ m.actual_samples = 0
  /\ m.neural_net_evaluations = 0
  /\ m.cached_evaluations = 0
  /\ m.heuristic_evaluations = 0

\* C40: the counters of a VerificationResult, and those GetLastSamplingMetrics
\* returns after the run, describe the run just performed: a run that did no
\* sampling reports no samples
C40_CountersOfThisRunOnly ==
  (call.op = "VerifySampling" /\ ~call.sampled) =>
    /\ NoSamplesCounted(call.result)
    /\ NoSamplesCounted(GetLastSamplingMetrics(mon))

\* a run on a position without legal moves whose result carries the samples of
\* the run before it
C40_EarlierCountsReported ==
  /\ call.op = "VerifySampling"
  /\ call.legal = <<>>
  /\ ~call.caught
  /\ call.result.actual_samples > 0

=========================================================================
